---- MODULE Spec2Model ----
(***************************************************************************)
(* A model of the Gossip P2P network: the seed membership authority        *)
(* (seed.py) and the peer's gossip engine and failure detector (peer.py).  *)
(* Seeds and peers are numbered; a PeerId "host:port" is a peer number.    *)
(***************************************************************************)
EXTENDS Integers, FiniteSets, Sequences, Bags, TLC

\* ------------------------------------------------------------------ bounds
MaxSeeds     == 3    \* the largest configured seed count explored
NumPeers     == 2    \* PeerIds that clients register or report
MaxConns     == 2    \* client connections accepted by the seeds in one run
MaxStops     == 1    \* seeds that stop in one run
MaxSyncing   == 1    \* seeds that are inside a sync round at the same time

NumOverlayPeers == 3 \* peers of the gossip overlay
MaxGenerated == 1    \* gossip messages originated in one run of GossipSpec
MaxInjected  == 2    \* GOSSIP frames a test client injects in one run
MaxInFlight  == 2    \* GOSSIP frames in flight when a peer originates (GossipCapSpec)
MaxPeerStops == 1    \* peers that stop in one run
NumCapPeers  == 2    \* peers started in GossipCapSpec
MaxDetectorStops == 2 \* peers that stop in one run of DetectorSpec
MaxCandidates == 31  \* the largest number of known peers an overlay is built over
PickWindow   == 6    \* the candidates (those of lowest id) that a draw can come out with
MaxProposals == 8    \* proposals opened in one run
NumStarting  == 2    \* peers that call start() in StartSpec
MaxStarting  == 1    \* peers that are inside start() at the same time
MaxReplays   == 1    \* PROPOSE_REGISTER messages delivered a second time in one run
MaxRecords   == 3    \* newline-terminated records a client writes on one connection
MaxReports   == 3    \* DEAD_NODE_REPORT messages that reach the seeds of registered peers
NumThreads   == 2    \* threads of one node that are followed through their "with" blocks

SeedIds == 1..MaxSeeds
PeerIds == 1..NumPeers
ProposalIds == 1..MaxProposals

VARIABLES
    total_seeds,        \* SeedNode.total_seeds: len(load_config(...)), the same at every seed
    running,            \* SeedNode.running, per seed
    peer_list,          \* SeedNode.peer_list, per seed: dict PeerId -> entry
    proposals,          \* SeedNode.proposals, per seed: dict proposal_id -> proposal
    pending_responses,  \* SeedNode.pending_responses, per seed: dict proposal_id -> connection
    conns,              \* client connections to seeds, each with its handler thread's position
    sync,               \* the _sync_loop thread of each seed
    sent,               \* PROPOSE_* messages delivered to another seed, and its VOTE_* replies
    outcomes,           \* the decisions logged by _decide_registration / _decide_removal
    last_approved       \* per PeerId, the kind of the latest approved decision in the cluster

VARIABLES
    peer_running,       \* PeerNode.running, per peer
    neighbors,          \* PeerNode.neighbors, per peer: the PeerIds of its NeighborMap
    message_list,       \* PeerNode.message_list, per peer: dict msg_hash -> record
    msg_counter,        \* PeerNode.msg_counter, per peer
    gossip_loop,        \* the _gossip_loop thread of each peer: "run" or "exit"
    net,                \* GOSSIP frames sent and not yet handled (a bag)
    sends,              \* every GOSSIP frame a peer has sent: a bag of [from, msg_hash, to]
    originated,         \* per peer, the MsgNum of each "Generated gossip" in order
    injected,           \* GOSSIP frames injected by the test client so far
    suspicion_counts,   \* PeerNode.suspicion_counts, per peer: dict PeerId -> miss count
    suspected_nodes,    \* PeerNode.suspected_nodes, per peer
    liveness,           \* the _liveness_loop thread of each peer
    reports,            \* the DEAD_NODE_REPORTs built by _report_dead_node
    start,              \* the start() thread of each peer, with PeerNode.registered and
                        \* PeerNode.known_peers and a log of what it sent and received
    reader,             \* one client connection to a seed, byte by byte: what the client
                        \* sends, and the _handle_connection thread that reads it
    io_log,             \* the socket calls made by the seeds' threads, each with the
                        \* locks of the node that the calling thread holds at the call
    threads             \* some threads of one node: the function each is in, how far it
                        \* is through the function's "with" blocks, and the locks it holds

detectorVars == <<suspicion_counts, suspected_nodes, liveness, reports>>

ioVars == <<reader, io_log, threads>>

peerVars == <<peer_running, neighbors, message_list, msg_counter, gossip_loop,
              net, sends, originated, injected, detectorVars, start>>

\* what the seeds' handlers leave alone
gossipVars == <<peerVars, ioVars>>

\* what the peers' threads leave alone
seedVars == <<total_seeds, running, peer_list, proposals, pending_responses,
              conns, sync, sent, outcomes, last_approved, ioVars>>

\* ------------------------------------------------------------------ dicts
EmptyDict == <<>>

DictSet(d, k, v) == [x \in (DOMAIN d) \cup {k} |-> IF x = k THEN v ELSE d[x]]

\* a pop that leaves the dict as it is
DictPopNothing(d, k) == d

DictPop(d, k) == [x \in (DOMAIN d) \ {k} |-> d[x]]

\* ------------------------------------------------------------------ seed helpers
\* self.seeds, in config order
ConfigSeeds == 1..total_seeds

\* a quorum that is one vote larger
QuorumPlusOne == (total_seeds \div 2) + 2

\* self.quorum = (self.total_seeds // 2) + 1
Quorum == (total_seeds \div 2) + 1

\* self.other_seeds: the configured seeds other than s, in config order
OtherSeeds(s) == SelectSeq([i \in 1..total_seeds |-> i], LAMBDA t : t # s)

\* sum(1 for v in prop["votes"].values() if v)
YesCount(votes) == Cardinality({v \in DOMAIN votes : votes[v]})

\* uuid4()[:8]: a token no proposal has used yet
UsedProposalIds == UNION {DOMAIN proposals[s] : s \in SeedIds}
FreshProposalId == CHOOSE k \in ProposalIds : k \notin UsedProposalIds /\
                       \A j \in ProposalIds : j \notin UsedProposalIds => k <= j

NewProposal(kind, p, proposer, voter, vote) ==
    [type |-> kind, peer_id |-> p, proposer |-> proposer,
     votes |-> (voter :> vote), decided |-> FALSE]

Msg(type, payload) == [type |-> type, payload |-> payload]

\* a merge that replaces the local list by the one received
MergeReplacesLocal(local, remote) == remote

\* a merge that drops what the other seed sent
MergeKeepsLocalOnly(local, remote) == local

\* _merge: every pid of remote that is not in the local list is copied in
Merge(local, remote) ==
    [q \in (DOMAIN local) \cup (DOMAIN remote) |->
        IF q \in DOMAIN local THEN local[q] ELSE remote[q]]

\* ------------------------------------------------------------------ Init
SeedInit ==
    /\ total_seeds \in 1..MaxSeeds
    /\ running = [s \in SeedIds |-> s <= total_seeds]
    /\ peer_list = [s \in SeedIds |-> EmptyDict]
    /\ proposals = [s \in SeedIds |-> EmptyDict]
    /\ pending_responses = [s \in SeedIds |-> EmptyDict]
    /\ conns = <<>>
    /\ sync = [s \in SeedIds |-> [phase |-> "sleep", my_peers |-> EmptyDict, next |-> 0]]
    /\ sent = {}
    /\ outcomes = {}
    /\ last_approved = [p \in PeerIds |-> "none"]


\* ------------------------------------------------------------------ clients
NewConn(type, s, p) ==
    [type |-> type, seed |-> s, peer |-> p, state |-> "sent",
     pid |-> 0, next |-> 0, out |-> <<>>]

\* A client (a peer's _register_with_seeds, or the test client) connects to seed s
\* and sends REGISTER_REQUEST{host, port} of PeerId p.
ClientRegister(s, p) ==
    /\ Len(conns) < MaxConns
    /\ s \in ConfigSeeds /\ running[s]
    /\ conns' = Append(conns, NewConn("REGISTER_REQUEST", s, p))
    /\ UNCHANGED <<total_seeds, running, peer_list, proposals, pending_responses,
                   sync, sent, outcomes, last_approved>>

\* A peer's _report_dead_node (or the test client) sends DEAD_NODE_REPORT for p to s.
ClientReport(s, p) ==
    /\ Len(conns) < MaxConns
    /\ s \in ConfigSeeds /\ running[s]
    /\ conns' = Append(conns, NewConn("DEAD_NODE_REPORT", s, p))
    /\ UNCHANGED <<total_seeds, running, peer_list, proposals, pending_responses,
                   sync, sent, outcomes, last_approved>>

\* A peer's _fetch_peer_lists (or the test client) sends GET_PEER_LIST to s.
ClientGetPeerList(s) ==
    /\ Len(conns) < MaxConns
    /\ s \in ConfigSeeds /\ running[s]
    /\ conns' = Append(conns, NewConn("GET_PEER_LIST", s, 0))
    /\ UNCHANGED <<total_seeds, running, peer_list, proposals, pending_responses,
                   sync, sent, outcomes, last_approved>>

\* ------------------------------------------------------------------ registration
\* the already-registered check left out
NeverAlreadyRegistered(s, req_id) == FALSE

\* _on_register_request, "if req_id in self.peer_list"
AlreadyRegistered(s, req_id) == req_id \in DOMAIN peer_list[s]

\* _on_register_request up to the vote collection loop: the idempotent ACK, or a
\* new proposal with the self-vote and the connection held pending.
OnRegisterRequest(c) ==
    LET cn == conns[c]
        s == cn.seed
        req_id == cn.peer
    IN
    /\ cn.type = "REGISTER_REQUEST" /\ cn.state = "sent" /\ running[s]
    /\ IF AlreadyRegistered(s, req_id)
       THEN /\ conns' = [conns EXCEPT ![c].state = "done",
                            ![c].out = Append(@, Msg("REGISTER_ACK",
                                [peer_id |-> req_id, message |-> "Already registered"]))]
            /\ UNCHANGED <<proposals, pending_responses>>
       ELSE LET proposal_id == FreshProposalId IN
            /\ proposals' = [proposals EXCEPT ![s] =
                    DictSet(@, proposal_id, NewProposal("register", req_id, s, s, TRUE))]
            /\ pending_responses' = [pending_responses EXCEPT ![s] = DictSet(@, proposal_id, c)]
            /\ conns' = [conns EXCEPT ![c].state = "collect",
                            ![c].pid = proposal_id, ![c].next = 1]
    /\ UNCHANGED <<total_seeds, running, peer_list, sync, sent, outcomes, last_approved>>

\* _on_propose_register / _on_propose_remove, the conn.sendall at the end: the reply
\* VOTE_*{proposal_id, voter, vote} on the connection of the proposer
VoteMsg(type, pid, voter, vote, proposer) ==
    [type |-> type, proposal_id |-> pid, voter |-> voter, vote |-> vote, to |-> proposer]

\* _on_propose_register: the vote of seed t on a register proposal for req_id
VoteRegister(t, req_id) == TRUE

\* a record step that overwrites the entry it finds
RecordProposalOverwrite(props, pid, kind, p, proposer, t, vote) ==
    DictSet(props, pid, NewProposal(kind, p, proposer, t, vote))

\* _on_propose_register / _on_propose_remove: t records the proposal unless it has it
RecordProposal(props, pid, kind, p, proposer, t, vote) ==
    IF pid \in DOMAIN props THEN props
    ELSE DictSet(props, pid, NewProposal(kind, p, proposer, t, vote))

\* the proposer's loop body: "if rp.get('proposal_id') == proposal_id and rp.get('vote')"
RecordVote(props, pid, voter, vote) ==
    IF vote THEN [props EXCEPT ![pid].votes = DictSet(@, voter, TRUE)] ELSE props

\* One iteration of the loop "for seed in self.other_seeds" of _on_register_request:
\* PROPOSE_REGISTER goes to the next seed t; a running t handles it in
\* _on_propose_register and its VOTE_REGISTER is recorded; a stopped t gives no vote.
CollectRegisterVote(c) ==
    LET cn == conns[c]
        s == cn.seed
        pid == cn.pid
        others == OtherSeeds(s)
    IN
    /\ cn.type = "REGISTER_REQUEST" /\ cn.state = "collect" /\ running[s]
    /\ cn.next <= Len(others)
    /\ LET t == others[cn.next]
           vote == VoteRegister(t, cn.peer)
       IN IF running[t]
          THEN /\ sent' = sent \cup {[type |-> "PROPOSE_REGISTER", proposal_id |-> pid,
                                      peer_id |-> cn.peer, proposer |-> s, to |-> t],
                                     VoteMsg("VOTE_REGISTER", pid, t, vote, s)}
               /\ proposals' = [proposals EXCEPT
                      ![t] = RecordProposal(@, pid, "register", cn.peer, s, t, vote),
                      ![s] = RecordVote(@, pid, t, vote)]
          ELSE UNCHANGED <<sent, proposals>>
    /\ conns' = [conns EXCEPT ![c].next = @ + 1]
    /\ UNCHANGED <<total_seeds, running, peer_list, pending_responses, sync,
                   outcomes, last_approved>>

\* a decision that approves on a quorum of YES votes only
RegistrationApprovedByQuorum(yes, total) == yes >= Quorum

\* _decide_registration, the three branches that set "approved"
RegistrationApproved(yes, total) ==
    IF yes >= Quorum THEN TRUE
    ELSE IF total >= total_seeds /\ yes < Quorum THEN FALSE
    ELSE (yes >= Quorum \/ yes >= 1)

\* a decision step that does not look at prop["decided"]
NeverAlreadyDecided(prop) == FALSE

\* _decide_registration / _decide_removal, "if not prop or prop['decided']: return"
AlreadyDecided(prop) == prop.decided

\* how many decisions of proposal pid seed s has logged so far
DecisionsOf(s, pid) == Cardinality({d \in outcomes : d.seed = s /\ d.proposal_id = pid})

\* _decide_registration(proposal_id), entered by a thread of the seed of connection c
\* for the proposal that c opened; st is where the handler thread of c stands afterwards
decide_registration(c, st) ==
    LET cn == conns[c]
        s == cn.seed
        pid == cn.pid
        prop == proposals[s][pid]
        yes == YesCount(prop.votes)
        total == Cardinality(DOMAIN prop.votes)
        approved == RegistrationApproved(yes, total)
        req_id == prop.peer_id
    IN
    /\ IF AlreadyDecided(prop)
       THEN /\ conns' = [conns EXCEPT ![c].state = st]
            /\ UNCHANGED <<proposals, peer_list, pending_responses, outcomes, last_approved>>
       ELSE /\ proposals' = [proposals EXCEPT ![s][pid].decided = TRUE]
            /\ outcomes' = outcomes \cup {[proposal_id |-> pid, type |-> "register",
                    peer_id |-> req_id, seed |-> s, approved |-> approved,
                    yes |-> yes, total |-> total, nth |-> DecisionsOf(s, pid) + 1]}
            /\ IF approved
               THEN /\ peer_list' = [peer_list EXCEPT ![s] = DictSet(@, req_id, [joined |-> pid])]
                    /\ last_approved' = [last_approved EXCEPT ![req_id] = "register"]
               ELSE UNCHANGED <<peer_list, last_approved>>
            /\ pending_responses' = [pending_responses EXCEPT ![s] = DictPop(@, pid)]
            /\ conns' = [conns EXCEPT ![c].state = st,
                   ![c].out = IF pid \in DOMAIN pending_responses[s]
                              THEN Append(@, Msg(IF approved THEN "REGISTER_ACK" ELSE "REGISTER_NACK",
                                     [peer_id |-> req_id,
                                      message |-> IF approved THEN "Registration approved"
                                                  ELSE "Registration rejected"]))
                              ELSE @]
    /\ UNCHANGED <<total_seeds, running, sync, sent>>

\* _on_register_request, its last line: the call of _decide_registration when the
\* collection loop is over
DecideRegistration(c) ==
    /\ conns[c].type = "REGISTER_REQUEST" /\ conns[c].state = "collect"
    /\ running[conns[c].seed]
    /\ conns[c].next > Len(OtherSeeds(conns[c].seed))
    /\ decide_registration(c, "done")

\* ------------------------------------------------------------------ removal
\* the membership check of a dead-node report left out
NeverUnknownDeadNode(s, dead_id) == FALSE

\* _on_dead_node_report, "if dead_id not in self.peer_list: ... return"
UnknownDeadNode(s, dead_id) == dead_id \notin DOMAIN peer_list[s]

\* _on_dead_node_report up to the vote collection loop
OnDeadNodeReport(c) ==
    LET cn == conns[c]
        s == cn.seed
        dead_id == cn.peer
    IN
    /\ cn.type = "DEAD_NODE_REPORT" /\ cn.state = "sent" /\ running[s]
    /\ IF UnknownDeadNode(s, dead_id)
       THEN /\ conns' = [conns EXCEPT ![c].state = "done"]
            /\ UNCHANGED proposals
       ELSE LET proposal_id == FreshProposalId IN
            /\ proposals' = [proposals EXCEPT ![s] =
                    DictSet(@, proposal_id, NewProposal("remove", dead_id, s, s, TRUE))]
            /\ conns' = [conns EXCEPT ![c].state = "collect",
                            ![c].pid = proposal_id, ![c].next = 1]
    /\ UNCHANGED <<total_seeds, running, peer_list, pending_responses, sync, sent,
                   outcomes, last_approved>>

\* a vote that is YES whatever the voter's peer list holds
VoteRemoveAlways(t, dead_id) == TRUE

\* _on_propose_remove: t votes YES iff dead_id is in its own peer list
VoteRemove(t, dead_id) == dead_id \in DOMAIN peer_list[t]

\* One iteration of the loop "for seed in self.other_seeds" of _on_dead_node_report
CollectRemoveVote(c) ==
    LET cn == conns[c]
        s == cn.seed
        pid == cn.pid
        others == OtherSeeds(s)
    IN
    /\ cn.type = "DEAD_NODE_REPORT" /\ cn.state = "collect" /\ running[s]
    /\ cn.next <= Len(others)
    /\ LET t == others[cn.next]
           vote == VoteRemove(t, cn.peer)
       IN IF running[t]
          THEN /\ sent' = sent \cup {[type |-> "PROPOSE_REMOVE", proposal_id |-> pid,
                                      peer_id |-> cn.peer, proposer |-> s, to |-> t],
                                     VoteMsg("VOTE_REMOVE", pid, t, vote, s)}
               /\ proposals' = [proposals EXCEPT
                      ![t] = RecordProposal(@, pid, "remove", cn.peer, s, t, vote),
                      ![s] = RecordVote(@, pid, t, vote)]
          ELSE UNCHANGED <<sent, proposals>>
    /\ conns' = [conns EXCEPT ![c].next = @ + 1]
    /\ UNCHANGED <<total_seeds, running, peer_list, pending_responses, sync,
                   outcomes, last_approved>>

\* a removal that the proposer's own vote approves
RemovalApprovedByAnyYes(yes) == yes >= 1

\* _decide_removal, "if yes >= self.quorum"
RemovalApproved(yes) == yes >= Quorum

\* _decide_removal(proposal_id), entered by a thread of the seed of connection c for
\* the proposal that c opened; st is where the handler thread of c stands afterwards
decide_removal(c, st) ==
    LET cn == conns[c]
        s == cn.seed
        pid == cn.pid
        prop == proposals[s][pid]
        yes == YesCount(prop.votes)
        dead_id == prop.peer_id
    IN
    /\ conns' = [conns EXCEPT ![c].state = st]
    /\ IF AlreadyDecided(prop)
       THEN UNCHANGED <<proposals, peer_list, outcomes, last_approved>>
       ELSE /\ proposals' = [proposals EXCEPT ![s][pid].decided = TRUE]
            /\ outcomes' = outcomes \cup {[proposal_id |-> pid, type |-> "remove",
                    peer_id |-> dead_id, seed |-> s, approved |-> RemovalApproved(yes),
                    yes |-> yes, total |-> Cardinality(DOMAIN prop.votes),
                    nth |-> DecisionsOf(s, pid) + 1]}
            /\ IF RemovalApproved(yes)
               THEN /\ peer_list' = [peer_list EXCEPT ![s] = DictPop(@, dead_id)]
                    /\ last_approved' = [last_approved EXCEPT ![dead_id] = "remove"]
               ELSE UNCHANGED <<peer_list, last_approved>>
    /\ UNCHANGED <<total_seeds, running, pending_responses, sync, sent>>

\* _on_dead_node_report, its last line: the call of _decide_removal when the
\* collection loop is over
DecideRemoval(c) ==
    /\ conns[c].type = "DEAD_NODE_REPORT" /\ conns[c].state = "collect"
    /\ running[conns[c].seed]
    /\ conns[c].next > Len(OtherSeeds(conns[c].seed))
    /\ decide_removal(c, "done")

\* ------------------------------------------------------------------ peer list service
\* a snapshot that is always empty
EmptySnapshot(s) == EmptyDict

\* _on_get_peer_list, "pl = dict(self.peer_list)" under peer_list_lock
PeerListSnapshot(s) == peer_list[s]

\* _on_get_peer_list
OnGetPeerList(c) ==
    LET cn == conns[c]
        s == cn.seed
    IN
    /\ cn.type = "GET_PEER_LIST" /\ cn.state = "sent" /\ running[s]
    /\ conns' = [conns EXCEPT ![c].state = "done",
           ![c].out = Append(@, Msg("PEER_LIST", [peers |-> PeerListSnapshot(s), seed_id |-> s]))]
    /\ UNCHANGED <<total_seeds, running, peer_list, proposals, pending_responses,
                   sync, sent, outcomes, last_approved>>

\* ------------------------------------------------------------------ seed sync
\* _sync_with_seeds, the snapshot "my_peers = dict(self.peer_list)" after the sleep
SyncStart(s) ==
    /\ s \in ConfigSeeds /\ running[s]
    /\ sync[s].phase = "sleep"
    /\ Len(OtherSeeds(s)) > 0
    /\ sync' = [sync EXCEPT ![s] = [phase |-> "send", my_peers |-> peer_list[s], next |-> 1]]
    /\ UNCHANGED <<total_seeds, running, peer_list, proposals, pending_responses,
                   conns, sent, outcomes, last_approved>>

\* One iteration of the loop of _sync_with_seeds: SEED_SYNC{peers: my_peers} goes to
\* the next seed t, which merges it in _on_seed_sync and sends nothing back.
SyncSend(s) ==
    LET others == OtherSeeds(s)
        t == others[sync[s].next]
    IN
    /\ s \in ConfigSeeds /\ running[s]
    /\ sync[s].phase = "send"
    /\ peer_list' = IF running[t]
                    THEN [peer_list EXCEPT ![t] = Merge(@, sync[s].my_peers)]
                    ELSE peer_list
    /\ sync' = [sync EXCEPT ![s] =
                  IF sync[s].next < Len(others)
                  THEN [@ EXCEPT !.next = @ + 1]
                  ELSE [phase |-> "sleep", my_peers |-> EmptyDict, next |-> 0]]
    /\ UNCHANGED <<total_seeds, running, proposals, pending_responses,
                   conns, sent, outcomes, last_approved>>

\* stop(): the process ends, with all its threads
SeedStop(s) ==
    /\ s \in ConfigSeeds /\ running[s]
    /\ running' = [running EXCEPT ![s] = FALSE]
    /\ UNCHANGED <<total_seeds, peer_list, proposals, pending_responses,
                   conns, sync, sent, outcomes, last_approved>>

\* the bounds of a run
Syncing == Cardinality({s \in ConfigSeeds : sync[s].phase = "send"})
Stopped == Cardinality({s \in ConfigSeeds : ~running[s]})

SyncStartBounded(s) == Syncing < MaxSyncing /\ SyncStart(s)

SeedNext ==
    \/ \E s \in SeedIds, p \in PeerIds : ClientRegister(s, p)
    \/ \E s \in SeedIds, p \in PeerIds : ClientReport(s, p)
    \/ \E s \in SeedIds : ClientGetPeerList(s)
    \/ \E c \in DOMAIN conns : OnRegisterRequest(c)
    \/ \E c \in DOMAIN conns : CollectRegisterVote(c)
    \/ \E c \in DOMAIN conns : DecideRegistration(c)
    \/ \E c \in DOMAIN conns : OnDeadNodeReport(c)
    \/ \E c \in DOMAIN conns : CollectRemoveVote(c)
    \/ \E c \in DOMAIN conns : DecideRemoval(c)
    \/ \E c \in DOMAIN conns : OnGetPeerList(c)
    \/ \E s \in SeedIds : SyncStartBounded(s)
    \/ \E s \in SeedIds : SyncSend(s)
    \/ \E s \in SeedIds : Stopped < MaxStops /\ SeedStop(s)

\* A further thread of the seed enters _decide_registration for a proposal the seed
\* has opened, whatever the handler thread of the connection is doing
ReenterDecideRegistration(c) ==
    /\ conns[c].type = "REGISTER_REQUEST" /\ conns[c].pid # 0
    /\ running[conns[c].seed]
    /\ decide_registration(c, conns[c].state)

\* the same for _decide_removal
ReenterDecideRemoval(c) ==
    /\ conns[c].type = "DEAD_NODE_REPORT" /\ conns[c].pid # 0
    /\ running[conns[c].seed]
    /\ decide_removal(c, conns[c].state)

\* the clients and the handlers of the seeds, without the sync loop and without stops
SeedReentryNext ==
    \/ \E s \in SeedIds, p \in PeerIds : ClientRegister(s, p)
    \/ \E s \in SeedIds, p \in PeerIds : ClientReport(s, p)
    \/ \E c \in DOMAIN conns : OnRegisterRequest(c)
    \/ \E c \in DOMAIN conns : CollectRegisterVote(c)
    \/ \E c \in DOMAIN conns : DecideRegistration(c)
    \/ \E c \in DOMAIN conns : OnDeadNodeReport(c)
    \/ \E c \in DOMAIN conns : CollectRemoveVote(c)
    \/ \E c \in DOMAIN conns : DecideRemoval(c)
    \/ \E c \in DOMAIN conns : ReenterDecideRegistration(c)
    \/ \E c \in DOMAIN conns : ReenterDecideRemoval(c)

\* the test client's GOSSIP names the sender "test" and the origin 127.0.0.1:9999
TestClient == 99

\* ------------------------------------------------------------------ replayed proposals
\* _on_propose_register at seed t for a PROPOSE_REGISTER m that arrives on a connection
\* of the test client: the proposal is recorded unless t has it, and VOTE_REGISTER goes
\* back on that connection
OnProposeRegister(t, m) ==
    LET vote == VoteRegister(t, m.peer_id) IN
    /\ t \in ConfigSeeds /\ running[t]
    /\ proposals' = [proposals EXCEPT ![t] =
          RecordProposal(@, m.proposal_id, "register", m.peer_id, m.proposer, t, vote)]
    /\ sent' = sent \cup {VoteMsg("VOTE_REGISTER", m.proposal_id, t, vote, TestClient)}
    /\ UNCHANGED <<total_seeds, running, peer_list, pending_responses, conns, sync,
                   outcomes, last_approved>>

Replays == Cardinality({m \in sent : m.type = "VOTE_REGISTER" /\ m.to = TestClient})

\* a PROPOSE_REGISTER that a seed has sent reaches a seed once more, the proposer
\* itself included
ReplayProposeRegister(t, m) ==
    /\ m \in sent /\ m.type = "PROPOSE_REGISTER"
    /\ Replays < MaxReplays
    /\ OnProposeRegister(t, m)

\* the registration handlers of the seeds, with replayed proposals
SeedReplayNext ==
    \/ \E s \in SeedIds, p \in PeerIds : ClientRegister(s, p)
    \/ \E c \in DOMAIN conns : OnRegisterRequest(c)
    \/ \E c \in DOMAIN conns : CollectRegisterVote(c)
    \/ \E c \in DOMAIN conns : DecideRegistration(c)
    \/ \E t \in SeedIds : \E m \in sent : ReplayProposeRegister(t, m)

\* ================================================================== peers: gossip
OverlayPeers == 1..NumOverlayPeers

\* protocol.py: MAX_GOSSIP_MESSAGES
MAX_GOSSIP_MESSAGES == 10

\* a cap that is off by one
max_gossip_messages_plus_one == MAX_GOSSIP_MESSAGES + 1

\* PeerNode.__init__: self.max_gossip_messages = MAX_GOSSIP_MESSAGES
max_gossip_messages == MAX_GOSSIP_MESSAGES

\* _generate_gossip calls _forward_gossip(..., sender=None)
None == 0


\* PeerNode.__init__: self.suspicion_threshold = 3
suspicion_threshold == 3

\* the _liveness_loop thread between two rounds: about to ping; cancelled holds the
\* suspects that the running call of _check_suspicions has logged as cancelled
IdleLiveness ==
    [phase |-> "ping", suspects |-> {}, suspect |-> None, others |-> {},
     queried |-> {}, confirmed |-> {}, confirm |-> 0, total |-> 0, cancelled |-> {}]


ThreadIds == 1..NumThreads

\* a thread that is in none of the functions that take a lock
IdleThread == [fn |-> "idle", pc |-> 0, held |-> {}]

\* no node's threads are being followed
NoThreads == [node |-> "none", of |-> [th \in ThreadIds |-> IdleThread]]

\* no connection is being followed byte by byte
NoReader ==
    [seed |-> 0, stream |-> <<>>, sent |-> 0, buf |-> <<>>, msgs |-> <<>>,
     dispatched |-> <<>>, out |-> <<>>, state |-> "none"]

\* start() not yet called: the fields are PeerNode.registered and PeerNode.known_peers,
\* the locals of _register_with_seeds (chosen, its loop index, ack_count), of
\* _fetch_peer_lists (its loop index, all_peers) and of _build_overlay (selected,
\* attempts), the connection being waited on, and the seeds asked so far
NoStart ==
    [phase |-> "off", registered |-> FALSE, known_peers |-> {},
     chosen |-> <<>>, idx |-> 0, ack_count |-> 0, conn |-> 0, reg_sent |-> <<>>,
     fetch_next |-> 0, all_peers |-> {}, fetched |-> {}, selected |-> {}, attempts |-> 0]

\* start() has gone through: the peer is registered and its threads run
StartedPeer == [NoStart EXCEPT !.phase = "active", !.registered = TRUE]

\* gossip_message_id: "<timestamp>:<IP>:<Port>:<Msg#>"; the timestamp of the
\* msg_num-th message of a peer is left out, the pair is unique without it
gossip_message_id(origin, msg_num) == <<origin, msg_num>>

\* hash_message: SHA-256 of the id, taken to be collision-free
hash_message(msg_id) == [sha256 |-> msg_id]

\* make_message(MSG_GOSSIP, {msg_id, msg_hash, sender}) on a connection to peer y
GossipFrame(y, msg_id, msg_hash, sender) ==
    [to |-> y, msg_id |-> msg_id, msg_hash |-> msg_hash, sender |-> sender]

\* a forward that goes back to the sender too
ForwardToAll(x, sender) == neighbors[x]

\* _forward_gossip: "for pid in targets: if pid == sender: continue"
ForwardTargets(x, sender) == {y \in neighbors[x] : y # sender}

\* _forward_gossip: the frames that reach a listening neighbor (_send_to_peer returns
\* False for a neighbor that is not running)
Forwarded(x, msg_id, msg_hash, sender) ==
    {GossipFrame(y, msg_id, msg_hash, x) : y \in {z \in ForwardTargets(x, sender) : peer_running[z]}}

SendLog(frames) == {[from |-> f.sender, msg_hash |-> f.msg_hash, to |-> f.to] : f \in frames}

\* _gossip_loop: "if self.msg_counter >= self.max_gossip_messages: break"
GossipLoopBreak(x) ==
    /\ peer_running[x] /\ gossip_loop[x] = "run"
    /\ msg_counter[x] >= max_gossip_messages
    /\ gossip_loop' = [gossip_loop EXCEPT ![x] = "exit"]
    /\ UNCHANGED <<peer_running, neighbors, message_list, msg_counter, net, sends,
                   originated, injected, detectorVars, start>>

\* _generate_gossip, with its _forward_gossip
GenerateGossip(x) ==
    /\ peer_running[x] /\ gossip_loop[x] = "run"
    /\ msg_counter[x] < max_gossip_messages      \* the loop's check
    /\ IF msg_counter[x] >= max_gossip_messages  \* the hard cap
       THEN UNCHANGED <<message_list, msg_counter, net, sends, originated>>
       ELSE LET msg_num == msg_counter[x] + 1
                msg_id == gossip_message_id(x, msg_num)
                msg_hash == hash_message(msg_id)
                frames == Forwarded(x, msg_id, msg_hash, None)
            IN /\ msg_counter' = [msg_counter EXCEPT ![x] = msg_num]
               /\ originated' = [originated EXCEPT ![x] = Append(@, msg_num)]
               /\ message_list' = [message_list EXCEPT ![x] =
                      DictSet(@, msg_hash, [id |-> msg_id, from |-> x, msg_num |-> msg_num])]
               /\ net' = net (+) SetToBag(frames)
               /\ sends' = sends (+) SetToBag(SendLog(frames))
    /\ UNCHANGED <<peer_running, neighbors, gossip_loop, injected, detectorVars, start>>

\* the test client (test_network.py, stage 4) sends GOSSIP to peer x
InjectGossip(x, n) ==
    /\ injected < MaxInjected
    /\ peer_running[x]
    /\ LET msg_id == gossip_message_id(TestClient, n) IN
       net' = net (+) SetToBag({GossipFrame(x, msg_id, hash_message(msg_id), TestClient)})
    /\ injected' = injected + 1
    /\ UNCHANGED <<peer_running, neighbors, message_list, msg_counter, gossip_loop,
                   sends, originated, detectorVars, start>>

\* the dedup check left out
NeverSeenBefore(x, msg_hash) == FALSE

\* _on_gossip, "if msg_hash in self.message_list: return"
SeenBefore(x, msg_hash) == msg_hash \in DOMAIN message_list[x]

\* _on_gossip, with its _forward_gossip
OnGossip(m) ==
    LET x == m.to IN
    /\ BagIn(m, net)
    /\ peer_running[x]
    /\ IF SeenBefore(x, m.msg_hash)
       THEN /\ net' = net (-) SetToBag({m})
            /\ UNCHANGED <<message_list, sends>>
       ELSE LET frames == Forwarded(x, m.msg_id, m.msg_hash, m.sender) IN
            /\ message_list' = [message_list EXCEPT ![x] =
                   DictSet(@, m.msg_hash, [id |-> m.msg_id, from |-> m.sender, msg_num |-> 0])]
            /\ net' = (net (-) SetToBag({m})) (+) SetToBag(frames)
            /\ sends' = sends (+) SetToBag(SendLog(frames))
    /\ UNCHANGED <<peer_running, neighbors, msg_counter, gossip_loop, originated, injected, detectorVars, start>>

\* stop(): the peer's process ends
PeerStop(x) ==
    /\ peer_running[x]
    /\ peer_running' = [peer_running EXCEPT ![x] = FALSE]
    /\ UNCHANGED <<neighbors, message_list, msg_counter, gossip_loop, net, sends,
                   originated, injected, detectorVars, start>>

\* Peers after start(): every peer has built its overlay over the other peers (any
\* set of them, by the order of the registrations and the sampling), no gossip yet.
GossipInit ==
    /\ peer_running = [x \in OverlayPeers |-> TRUE]
    /\ neighbors \in [OverlayPeers -> SUBSET OverlayPeers]
    /\ \A x \in OverlayPeers : x \notin neighbors[x]
    /\ start = [x \in OverlayPeers |-> [StartedPeer EXCEPT !.known_peers = neighbors[x]]]
    /\ message_list = [x \in OverlayPeers |-> EmptyDict]
    /\ msg_counter = [x \in OverlayPeers |-> 0]
    /\ gossip_loop = [x \in OverlayPeers |-> "run"]
    /\ net = EmptyBag
    /\ sends = EmptyBag
    /\ originated = [x \in OverlayPeers |-> <<>>]
    /\ injected = 0
    /\ suspicion_counts = [x \in OverlayPeers |-> EmptyDict]
    /\ suspected_nodes = [x \in OverlayPeers |-> {}]
    /\ liveness = [x \in OverlayPeers |-> IdleLiveness]
    /\ reports = {}
    /\ reader = NoReader
    /\ io_log = {}
    /\ threads = NoThreads

\* no peer has been started
GossipIdle ==
    /\ start = [x \in OverlayPeers |-> NoStart]
    /\ peer_running = [x \in OverlayPeers |-> FALSE]
    /\ neighbors = [x \in OverlayPeers |-> {}]
    /\ message_list = [x \in OverlayPeers |-> EmptyDict]
    /\ msg_counter = [x \in OverlayPeers |-> 0]
    /\ gossip_loop = [x \in OverlayPeers |-> "run"]
    /\ net = EmptyBag
    /\ sends = EmptyBag
    /\ originated = [x \in OverlayPeers |-> <<>>]
    /\ injected = 0
    /\ suspicion_counts = [x \in OverlayPeers |-> EmptyDict]
    /\ suspected_nodes = [x \in OverlayPeers |-> {}]
    /\ liveness = [x \in OverlayPeers |-> IdleLiveness]
    /\ reports = {}
    /\ reader = NoReader
    /\ io_log = {}
    /\ threads = NoThreads

\* no seed has been started
SeedIdle ==
    /\ total_seeds = 1
    /\ running = [s \in SeedIds |-> FALSE]
    /\ peer_list = [s \in SeedIds |-> EmptyDict]
    /\ proposals = [s \in SeedIds |-> EmptyDict]
    /\ pending_responses = [s \in SeedIds |-> EmptyDict]
    /\ conns = <<>>
    /\ sync = [s \in SeedIds |-> [phase |-> "sleep", my_peers |-> EmptyDict, next |-> 0]]
    /\ sent = {}
    /\ outcomes = {}
    /\ last_approved = [p \in PeerIds |-> "none"]

Generated == Cardinality({h \in UNION {DOMAIN message_list[x] : x \in OverlayPeers} :
                             h.sha256[1] # TestClient})
PeersStopped == Cardinality({x \in OverlayPeers : ~peer_running[x]})
TestIds == 1..1

GossipNext ==
    \/ \E x \in OverlayPeers : Generated < MaxGenerated /\ GenerateGossip(x) /\ UNCHANGED seedVars
    \/ \E x \in OverlayPeers, n \in TestIds : InjectGossip(x, n) /\ UNCHANGED seedVars
    \/ \E m \in BagToSet(net) : OnGossip(m) /\ UNCHANGED seedVars
    \/ \E x \in OverlayPeers : PeersStopped < MaxPeerStops /\ PeerStop(x) /\ UNCHANGED seedVars

\* Only the first NumCapPeers peers have been started; their overlays are among them.
GossipCapInit ==
    /\ peer_running = [x \in OverlayPeers |-> x <= NumCapPeers]
    /\ neighbors \in [OverlayPeers -> SUBSET (1..NumCapPeers)]
    /\ \A x \in OverlayPeers : x \notin neighbors[x] /\ (x > NumCapPeers => neighbors[x] = {})
    /\ start = [x \in OverlayPeers |->
          IF x <= NumCapPeers THEN [StartedPeer EXCEPT !.known_peers = neighbors[x]]
          ELSE NoStart]
    /\ message_list = [x \in OverlayPeers |-> EmptyDict]
    /\ msg_counter = [x \in OverlayPeers |-> 0]
    /\ gossip_loop = [x \in OverlayPeers |-> "run"]
    /\ net = EmptyBag
    /\ sends = EmptyBag
    /\ originated = [x \in OverlayPeers |-> <<>>]
    /\ injected = 0
    /\ suspicion_counts = [x \in OverlayPeers |-> EmptyDict]
    /\ suspected_nodes = [x \in OverlayPeers |-> {}]
    /\ liveness = [x \in OverlayPeers |-> IdleLiveness]
    /\ reports = {}
    /\ reader = NoReader
    /\ io_log = {}
    /\ threads = NoThreads

GossipCapNext ==
    \/ \E x \in OverlayPeers :
          BagCardinality(net) < MaxInFlight /\ GenerateGossip(x) /\ UNCHANGED seedVars
    \/ \E x \in OverlayPeers : GossipLoopBreak(x) /\ UNCHANGED seedVars
    \/ \E m \in BagToSet(net) : OnGossip(m) /\ UNCHANGED seedVars

\* ================================================================== peers: failure detector
\* _on_ping answers every PING of a running peer with PONG
GotPong(pid) == peer_running[pid]

\* _liveness_loop tests self.running before each round only; _ping_all_neighbors, with
\* ponged the neighbors whose PONG came back: a PONG clears the neighbor's count and
\* suspicion, a miss adds one to its count
PingRound(x, ponged) ==
    /\ peer_running[x] /\ liveness[x].phase = "ping"
    /\ suspicion_counts' = [suspicion_counts EXCEPT ![x] =
          [pid \in ((DOMAIN @) \cup neighbors[x]) \ ponged |->
              IF pid \in neighbors[x]
              THEN (IF pid \in DOMAIN @ THEN @[pid] ELSE 0) + 1
              ELSE @[pid]]]
    /\ suspected_nodes' = [suspected_nodes EXCEPT ![x] = @ \ ponged]
    /\ liveness' = [liveness EXCEPT ![x].phase = "check"]
    /\ UNCHANGED <<start, peer_running, neighbors, message_list, msg_counter, gossip_loop,
                   net, sends, originated, injected, reports>>

\* a round of pings in which every running neighbor answers in time
PingAllNeighbors(x) == PingRound(x, {q \in neighbors[x] : GotPong(q)})

\* a round of pings in which the PONG of some running neighbors does not come within
\* ping_timeout: _send_with_response returns no message for them
PingSomeLost(x) ==
    \E ponged \in SUBSET {q \in neighbors[x] : GotPong(q)} : PingRound(x, ponged)

\* suspects taken again while they are in suspected_nodes
SuspectsWhileSuspected(x) ==
    {pid \in DOMAIN suspicion_counts[x] : suspicion_counts[x][pid] >= suspicion_threshold}

\* suspects taken at the first miss
SuspectsAtFirstMiss(x) ==
    {pid \in DOMAIN suspicion_counts[x] : pid \notin suspected_nodes[x]}

\* _check_suspicions, the dict "suspects"
Suspects(x) ==
    {pid \in DOMAIN suspicion_counts[x] :
        suspicion_counts[x][pid] >= suspicion_threshold /\ pid \notin suspected_nodes[x]}

\* _check_suspicions up to its loop "for suspect_id in suspects"
CheckSuspicions(x) ==
    /\ liveness[x].phase = "check"
    /\ liveness' = [liveness EXCEPT ![x] =
          IF Suspects(x) = {} THEN IdleLiveness
          ELSE [IdleLiveness EXCEPT !.phase = "rounds", !.suspects = Suspects(x)]]
    /\ UNCHANGED <<start, peer_running, neighbors, message_list, msg_counter, gossip_loop,
                   net, sends, originated, injected, suspicion_counts, suspected_nodes,
                   reports>>

\* _check_suspicions, the start of the round of one suspect: it joins suspected_nodes,
\* confirm = total = 1, and the other neighbors are listed
BeginRound(x, suspect_id) ==
    /\ liveness[x].phase = "rounds"
    /\ liveness[x].suspect = None
    /\ suspect_id \in liveness[x].suspects
    /\ suspected_nodes' = [suspected_nodes EXCEPT ![x] = @ \cup {suspect_id}]
    /\ liveness' = [liveness EXCEPT ![x] =
          [@ EXCEPT !.suspect = suspect_id, !.others = neighbors[x] \ {suspect_id},
                    !.queried = {}, !.confirmed = {}, !.confirm = 1, !.total = 1]]
    /\ UNCHANGED <<start, peer_running, neighbors, message_list, msg_counter, gossip_loop,
                   net, sends, originated, injected, suspicion_counts, reports>>

\* _on_suspect_query at peer y: confirmed by its own miss count, or by a live probe
\* of the suspect when the suspect is one of its neighbors
SuspectConfirmed(y, suspect_id) ==
    \/ (suspect_id \in DOMAIN suspicion_counts[y] /\ suspicion_counts[y][suspect_id] >= 1)
    \/ (suspect_id \in neighbors[y] /\ ~GotPong(suspect_id))

\* _check_suspicions, one iteration of "for pid, info in others.items()": total grows,
\* and confirm grows when a SUSPECT_RESPONSE with confirmed = true comes back
QuerySuspect(x, pid) ==
    /\ liveness[x].phase = "rounds"
    /\ liveness[x].suspect # None
    /\ pid \in liveness[x].others
    /\ LET answered == peer_running[pid]
           yes == answered /\ SuspectConfirmed(pid, liveness[x].suspect)
       IN liveness' = [liveness EXCEPT ![x] =
             [@ EXCEPT !.others = @ \ {pid},
                       !.queried = @ \cup {pid},
                       !.confirmed = IF yes THEN @ \cup {pid} ELSE @,
                       !.total = @ + 1,
                       !.confirm = IF yes THEN @ + 1 ELSE @]]
    /\ UNCHANGED <<start, peer_running, neighbors, message_list, msg_counter, gossip_loop,
                   net, sends, originated, injected, suspicion_counts, suspected_nodes,
                   reports>>

\* a quorum of half the samples, which a tie of the round reaches
PeerQuorumHalf(total) == total \div 2

\* _check_suspicions: quorum = (total // 2) + 1
PeerQuorum(total) == (total \div 2) + 1

\* a reporter that gives up at the first seed it cannot reach
ReportConnsUntilRefused(dead_id) ==
    LET up == SelectSeq([i \in 1..total_seeds |-> i],
                        LAMBDA s : \A u \in 1..s : running[u])
    IN [i \in 1..Len(up) |-> NewConn("DEAD_NODE_REPORT", up[i], dead_id)]

\* _report_dead_node, "for seed in self.seeds": a DEAD_NODE_REPORT for dead_id on a new
\* connection to every configured seed that accepts it, in config order
ReportConns(dead_id) ==
    LET up == SelectSeq([i \in 1..total_seeds |-> i], LAMBDA s : running[s])
    IN [i \in 1..Len(up) |-> NewConn("DEAD_NODE_REPORT", up[i], dead_id)]

\* _check_suspicions, the end of a round: with confirm >= quorum the report is built
\* and sent to the seeds and the suspect leaves the neighbors; otherwise the suspicion
\* is cancelled
EndRound(x) ==
    LET lv == liveness[x]
        suspect_id == lv.suspect
        rest == lv.suspects \ {suspect_id}
    IN
    /\ lv.phase = "rounds"
    /\ suspect_id # None /\ lv.others = {}
    /\ IF lv.confirm >= PeerQuorum(lv.total)
       THEN /\ reports' = reports \cup {[dead_peer_id |-> suspect_id, reporter_id |-> x,
                                         peer_votes |-> lv.confirm]}
            /\ conns' = conns \o ReportConns(suspect_id)
            /\ neighbors' = [neighbors EXCEPT ![x] = @ \ {suspect_id}]
            /\ UNCHANGED <<suspected_nodes, suspicion_counts>>
       ELSE /\ suspected_nodes' = [suspected_nodes EXCEPT ![x] = @ \ {suspect_id}]
            /\ suspicion_counts' = [suspicion_counts EXCEPT ![x] = DictPop(@, suspect_id)]
            /\ UNCHANGED <<reports, neighbors, conns>>
    /\ liveness' = [liveness EXCEPT ![x] =
          IF rest = {} THEN IdleLiveness
          ELSE [IdleLiveness EXCEPT !.phase = "rounds", !.suspects = rest,
                   !.cancelled = IF lv.confirm >= PeerQuorum(lv.total)
                                 THEN lv.cancelled ELSE lv.cancelled \cup {suspect_id}]]
    /\ UNCHANGED <<start, peer_running, message_list, msg_counter, gossip_loop,
                   net, sends, originated, injected>>
    /\ UNCHANGED <<total_seeds, running, peer_list, proposals, pending_responses,
                   sync, sent, outcomes, last_approved, ioVars>>

DetectorNext ==
    \/ \E x \in OverlayPeers : PeersStopped < MaxDetectorStops /\ PeerStop(x) /\ UNCHANGED seedVars
    \/ \E x \in OverlayPeers : PingAllNeighbors(x) /\ UNCHANGED seedVars
    \/ \E x \in OverlayPeers : CheckSuspicions(x) /\ UNCHANGED seedVars
    \/ \E x \in OverlayPeers, s \in OverlayPeers : BeginRound(x, s) /\ UNCHANGED seedVars
    \/ \E x \in OverlayPeers, y \in OverlayPeers : QuerySuspect(x, y) /\ UNCHANGED seedVars
    \/ \E x \in OverlayPeers : EndRound(x)

\* the failure detector when a PONG can come too late; no peer stops
DetectorLossyNext ==
    \/ \E x \in OverlayPeers : PingSomeLost(x) /\ UNCHANGED seedVars
    \/ \E x \in OverlayPeers : CheckSuspicions(x) /\ UNCHANGED seedVars
    \/ \E x \in OverlayPeers, s \in OverlayPeers : BeginRound(x, s) /\ UNCHANGED seedVars
    \/ \E x \in OverlayPeers, y \in OverlayPeers : QuerySuspect(x, y) /\ UNCHANGED seedVars
    \/ \E x \in OverlayPeers : EndRound(x)

vars == <<seedVars, gossipVars>>

\* the gossip engine of all the peers, a few messages
GossipSpecInit == GossipInit /\ SeedIdle

GossipSpec == GossipSpecInit /\ [][GossipNext]_vars

\* Every GOSSIP frame that has reached a running peer is handled: _handle_connection
\* runs in a thread of its own for each connection.
GossipFairness == WF_vars(\E m \in BagToSet(net) : OnGossip(m) /\ UNCHANGED seedVars)

GossipLiveSpec == GossipSpecInit /\ [][GossipNext]_vars /\ GossipFairness

\* the gossip engine of a few peers, every peer originating up to its cap
GossipCapSpecInit == GossipCapInit /\ SeedIdle

GossipCapSpec == GossipCapSpecInit /\ [][GossipCapNext]_vars

\* ================================================================== peers: overlay
\* PeerNode.__init__: self.max_degree = 5, self.min_degree = 1
max_degree == 5
min_degree == 1

Min(a, b) == IF a <= b THEN a ELSE b
Max(a, b) == IF a >= b THEN a ELSE b

\* int(math.log2(k)) for k >= 1
RECURSIVE FloorLog2(_)
FloorLog2(k) == IF k <= 1 THEN 0 ELSE 1 + FloorLog2(k \div 2)

\* a target degree without the cap of max_degree
TargetDegreeUncapped(n) == Min(Max(min_degree, FloorLog2(n + 1) + 1), n)

\* _build_overlay: target = min(max_degree, max(min_degree, int(log2(n+1)) + 1)),
\* then target = min(target, n)
TargetDegree(n) == Min(Min(max_degree, Max(min_degree, FloorLog2(n + 1) + 1)), n)

\* a draw among all peers, known or not, the peer itself included
PickableAnyone(x) == OverlayPeers

\* _build_overlay: the ids that one weighted draw over the shuffled candidates can
\* come out with (any candidate; here those of the PickWindow lowest ids)
Pickable(x) ==
    {pid \in start[x].known_peers :
        Cardinality({q \in start[x].known_peers : q <= pid}) <= PickWindow}

\* _build_overlay up to its selection loop: "if not available: return"
OverlayBegin(x) ==
    /\ peer_running[x] /\ start[x].phase = "overlay"
    /\ start' = [start EXCEPT ![x] =
          IF start[x].known_peers = {}
          THEN [@ EXCEPT !.phase = "threads"]
          ELSE [@ EXCEPT !.phase = "select", !.selected = {}, !.attempts = 0]]
    /\ UNCHANGED <<peer_running, neighbors, message_list, msg_counter, gossip_loop,
                   net, sends, originated, injected, detectorVars>>

\* one iteration of "while len(selected) < target and attempts < target * 10"
OverlayAttempt(x, pid) ==
    LET target == TargetDegree(Cardinality(start[x].known_peers)) IN
    /\ peer_running[x] /\ start[x].phase = "select"
    /\ Cardinality(start[x].selected) < target /\ start[x].attempts < target * 10
    /\ pid \in Pickable(x)
    /\ start' = [start EXCEPT ![x] =
          [@ EXCEPT !.selected = @ \cup {pid}, !.attempts = @ + 1]]
    /\ UNCHANGED <<peer_running, neighbors, message_list, msg_counter, gossip_loop,
                   net, sends, originated, injected, detectorVars>>

\* _build_overlay after the loop: "for pid in selected: self.neighbors[pid] = ..."
OverlayEnd(x) ==
    LET target == TargetDegree(Cardinality(start[x].known_peers)) IN
    /\ peer_running[x] /\ start[x].phase = "select"
    /\ ~(Cardinality(start[x].selected) < target /\ start[x].attempts < target * 10)
    /\ neighbors' = [neighbors EXCEPT ![x] = @ \cup start[x].selected]
    /\ start' = [start EXCEPT ![x] =
          [@ EXCEPT !.phase = "threads", !.selected = {}, !.attempts = 0]]
    /\ UNCHANGED <<peer_running, message_list, msg_counter, gossip_loop,
                   net, sends, originated, injected, detectorVars>>

\* start(), steps 4 and 5: the gossip thread and the liveness thread are started
StartThreads(x) ==
    /\ peer_running[x] /\ start[x].phase = "threads"
    /\ start' = [start EXCEPT ![x].phase = "active"]
    /\ gossip_loop' = [gossip_loop EXCEPT ![x] = "run"]
    /\ liveness' = [liveness EXCEPT ![x] = IdleLiveness]
    /\ UNCHANGED <<peer_running, neighbors, message_list, msg_counter,
                   net, sends, originated, injected, suspicion_counts, suspected_nodes,
                   reports>>

\* Peer 1 is registered and has fetched the peer lists: it knows n other peers
OverlayInit ==
    /\ \E n \in 0..MaxCandidates :
          start = [x \in OverlayPeers |->
                      IF x = 1
                      THEN [NoStart EXCEPT !.phase = "overlay", !.registered = TRUE,
                                           !.known_peers = 2..(n + 1)]
                      ELSE NoStart]
    /\ peer_running = [x \in OverlayPeers |-> x = 1]
    /\ neighbors = [x \in OverlayPeers |-> {}]
    /\ message_list = [x \in OverlayPeers |-> EmptyDict]
    /\ msg_counter = [x \in OverlayPeers |-> 0]
    /\ gossip_loop = [x \in OverlayPeers |-> "off"]
    /\ net = EmptyBag
    /\ sends = EmptyBag
    /\ originated = [x \in OverlayPeers |-> <<>>]
    /\ injected = 0
    /\ suspicion_counts = [x \in OverlayPeers |-> EmptyDict]
    /\ suspected_nodes = [x \in OverlayPeers |-> {}]
    /\ liveness = [x \in OverlayPeers |-> [IdleLiveness EXCEPT !.phase = "off"]]
    /\ reports = {}
    /\ reader = NoReader
    /\ io_log = {}
    /\ threads = NoThreads

OverlayNext ==
    \/ \E x \in OverlayPeers : OverlayBegin(x) /\ UNCHANGED seedVars
    \/ \E x \in OverlayPeers : \E pid \in Pickable(x) : OverlayAttempt(x, pid) /\ UNCHANGED seedVars
    \/ \E x \in OverlayPeers : OverlayEnd(x) /\ UNCHANGED seedVars
    \/ \E x \in OverlayPeers : StartThreads(x) /\ UNCHANGED seedVars

\* ================================================================== peers: start-up
\* random.sample(self.seeds, k): the sequences of k distinct configured seeds
Samples(k) ==
    {sq \in [1..k -> ConfigSeeds] : \A i \in 1..k, j \in 1..k : sq[i] = sq[j] => i = j}

\* _register_with_seeds: required = (n // 2) + 1, and min(required, n) seeds are chosen
NumChosen == Min((total_seeds \div 2) + 1, total_seeds)

\* start() up to the registration loop: the listener runs and the seeds are sampled
PeerStart(x, chosen) ==
    /\ start[x].phase = "off" /\ ~peer_running[x]
    /\ chosen \in Samples(NumChosen)
    /\ peer_running' = [peer_running EXCEPT ![x] = TRUE]
    /\ start' = [start EXCEPT ![x] = [@ EXCEPT !.phase = "register", !.chosen = chosen,
                                               !.idx = 1, !.ack_count = 0]]
    /\ UNCHANGED <<neighbors, message_list, msg_counter, gossip_loop,
                   net, sends, originated, injected, detectorVars>>
    /\ UNCHANGED seedVars

\* _register_with_seeds, one iteration of "for seed in chosen" up to the wait for the
\* reply: REGISTER_REQUEST goes to the seed; a seed that is not running refuses the
\* connection and the loop goes on
RegisterSend(x) ==
    LET st == start[x]
        s == st.chosen[st.idx]
    IN
    /\ peer_running[x] /\ st.phase = "register" /\ st.idx <= Len(st.chosen)
    /\ IF running[s]
       THEN /\ conns' = Append(conns, NewConn("REGISTER_REQUEST", s, x))
            /\ start' = [start EXCEPT ![x] = [@ EXCEPT !.phase = "wait",
                            !.conn = Len(conns) + 1, !.reg_sent = Append(@, s)]]
       ELSE /\ conns' = conns
            /\ start' = [start EXCEPT ![x] = [@ EXCEPT !.idx = @ + 1,
                            !.reg_sent = Append(@, s)]]
    /\ UNCHANGED <<peer_running, neighbors, message_list, msg_counter, gossip_loop,
                   net, sends, originated, injected, detectorVars>>
    /\ UNCHANGED <<total_seeds, running, peer_list, proposals, pending_responses,
                   sync, sent, outcomes, last_approved, ioVars>>

\* _register_with_seeds: the reply of the seed is read, a REGISTER_ACK is counted
RegisterReply(x) ==
    LET st == start[x] IN
    /\ peer_running[x] /\ st.phase = "wait"
    /\ conns[st.conn].out # <<>>
    /\ start' = [start EXCEPT ![x] = [@ EXCEPT !.phase = "register", !.idx = @ + 1,
                    !.conn = 0,
                    !.ack_count = IF conns[st.conn].out[1].type = "REGISTER_ACK"
                                  THEN @ + 1 ELSE @]]
    /\ UNCHANGED <<peer_running, neighbors, message_list, msg_counter, gossip_loop,
                   net, sends, originated, injected, detectorVars>>
    /\ UNCHANGED seedVars

\* _send_with_response returns without a message: the seed has stopped before it
\* answered (a running seed is taken to answer within the timeout of 10 s)
RegisterNoReply(x) ==
    LET st == start[x] IN
    /\ peer_running[x] /\ st.phase = "wait"
    /\ conns[st.conn].out = <<>> /\ ~running[conns[st.conn].seed]
    /\ start' = [start EXCEPT ![x] = [@ EXCEPT !.phase = "register", !.idx = @ + 1,
                    !.conn = 0]]
    /\ UNCHANGED <<peer_running, neighbors, message_list, msg_counter, gossip_loop,
                   net, sends, originated, injected, detectorVars>>
    /\ UNCHANGED seedVars

\* a registration that succeeds whatever the seeds answered
AlwaysSucceeded(ack_count) == TRUE

\* _register_with_seeds: "if ack_count >= 1"
RegistrationSucceeded(ack_count) == ack_count >= 1

\* the end of _register_with_seeds and what start() does with its result: registered
\* and on to the peer lists, or stop()
RegisterDone(x) ==
    LET st == start[x] IN
    /\ peer_running[x] /\ st.phase = "register" /\ st.idx > Len(st.chosen)
    /\ IF RegistrationSucceeded(st.ack_count)
       THEN /\ start' = [start EXCEPT ![x] = [@ EXCEPT !.phase = "fetch",
                            !.registered = TRUE, !.fetch_next = 1, !.all_peers = {}]]
            /\ UNCHANGED peer_running
       ELSE /\ start' = [start EXCEPT ![x] = [@ EXCEPT !.phase = "failed"]]
            /\ peer_running' = [peer_running EXCEPT ![x] = FALSE]
    /\ UNCHANGED <<neighbors, message_list, msg_counter, gossip_loop,
                   net, sends, originated, injected, detectorVars>>
    /\ UNCHANGED seedVars

\* _fetch_peer_lists, one iteration of "for seed in self.seeds": GET_PEER_LIST is
\* answered by _on_get_peer_list of a running seed, and the peers are added
FetchPeerList(x) ==
    LET st == start[x]
        s == st.fetch_next
    IN
    /\ peer_running[x] /\ st.phase = "fetch" /\ s <= total_seeds
    /\ start' = [start EXCEPT ![x] = [@ EXCEPT !.fetch_next = @ + 1,
                    !.fetched = @ \cup {s},
                    !.all_peers = IF running[s] THEN @ \cup DOMAIN PeerListSnapshot(s)
                                  ELSE @]]
    /\ UNCHANGED <<peer_running, neighbors, message_list, msg_counter, gossip_loop,
                   net, sends, originated, injected, detectorVars>>
    /\ UNCHANGED seedVars

\* _fetch_peer_lists after the loop: the peer itself is taken out of the union
FetchDone(x) ==
    LET st == start[x] IN
    /\ peer_running[x] /\ st.phase = "fetch" /\ st.fetch_next > total_seeds
    /\ start' = [start EXCEPT ![x] = [@ EXCEPT !.phase = "overlay",
                    !.known_peers = st.all_peers \ {x}, !.all_peers = {}]]
    /\ UNCHANGED <<peer_running, neighbors, message_list, msg_counter, gossip_loop,
                   net, sends, originated, injected, detectorVars>>
    /\ UNCHANGED seedVars

\* No seed has registered anybody and no peer has called start()
StartInit ==
    /\ start = [x \in OverlayPeers |-> NoStart]
    /\ peer_running = [x \in OverlayPeers |-> FALSE]
    /\ neighbors = [x \in OverlayPeers |-> {}]
    /\ message_list = [x \in OverlayPeers |-> EmptyDict]
    /\ msg_counter = [x \in OverlayPeers |-> 0]
    /\ gossip_loop = [x \in OverlayPeers |-> "off"]
    /\ net = EmptyBag
    /\ sends = EmptyBag
    /\ originated = [x \in OverlayPeers |-> <<>>]
    /\ injected = 0
    /\ suspicion_counts = [x \in OverlayPeers |-> EmptyDict]
    /\ suspected_nodes = [x \in OverlayPeers |-> {}]
    /\ liveness = [x \in OverlayPeers |-> [IdleLiveness EXCEPT !.phase = "off"]]
    /\ reports = {}
    /\ reader = NoReader
    /\ io_log = {}
    /\ threads = NoThreads

StartingPeers == 1..NumStarting

\* the peers that are between the call of start() and the start of their threads
Starting == Cardinality({x \in OverlayPeers :
                start[x].phase \in {"register", "wait", "fetch", "overlay", "select", "threads"}})

StartNext ==
    \/ \E x \in StartingPeers : \E chosen \in Samples(NumChosen) :
          Starting < MaxStarting /\ PeerStart(x, chosen)
    \/ \E x \in StartingPeers : RegisterSend(x)
    \/ \E x \in StartingPeers : RegisterReply(x)
    \/ \E x \in StartingPeers : RegisterNoReply(x)
    \/ \E x \in StartingPeers : RegisterDone(x)
    \/ \E x \in StartingPeers : FetchPeerList(x)
    \/ \E x \in StartingPeers : FetchDone(x)
    \/ \E x \in StartingPeers : OverlayBegin(x) /\ UNCHANGED seedVars
    \/ \E x \in StartingPeers : \E pid \in Pickable(x) : OverlayAttempt(x, pid) /\ UNCHANGED seedVars
    \/ \E x \in StartingPeers : OverlayEnd(x) /\ UNCHANGED seedVars
    \/ \E x \in StartingPeers : StartThreads(x) /\ UNCHANGED seedVars
    \/ \E x \in StartingPeers : Generated < MaxGenerated /\ GenerateGossip(x) /\ UNCHANGED seedVars
    \/ \E x \in StartingPeers : PingAllNeighbors(x) /\ UNCHANGED seedVars
    \/ \E c \in DOMAIN conns : OnRegisterRequest(c) /\ UNCHANGED gossipVars
    \/ \E c \in DOMAIN conns : CollectRegisterVote(c) /\ UNCHANGED gossipVars
    \/ \E c \in DOMAIN conns : DecideRegistration(c) /\ UNCHANGED gossipVars
    \/ \E s \in SeedIds : Stopped < MaxStops /\ SeedStop(s) /\ UNCHANGED gossipVars

\* _on_register_request: _send_to_seed_with_response(seed, msg, timeout=5.0)
SeedVoteTimeout == 5

\* _register_with_seeds: self._send_to_seed(seed, msg, timeout=10.0)
PeerReplyTimeout == 10

\* the seeds that the handler of connection c has asked and whose vote did not come
\* within SeedVoteTimeout: they run, and the proposer has no vote of theirs
LateVoters(c) ==
    LET s == conns[c].seed
        others == OtherSeeds(s)
    IN IF conns[c].pid = 0 THEN {}
       ELSE {t \in {others[i] : i \in 1..(conns[c].next - 1)} :
                running[t] /\ t \notin DOMAIN proposals[s][conns[c].pid].votes}

\* _send_with_response returns without a message although the seed runs: the seed's
\* vote collection has waited at least as long as the peer waits for the reply
RegisterTimeout(x) ==
    LET st == start[x] IN
    /\ peer_running[x] /\ st.phase = "wait"
    /\ conns[st.conn].out = <<>> /\ running[conns[st.conn].seed]
    /\ Cardinality(LateVoters(st.conn)) * SeedVoteTimeout >= PeerReplyTimeout
    /\ start' = [start EXCEPT ![x] = [@ EXCEPT !.phase = "register", !.idx = @ + 1,
                    !.conn = 0]]
    /\ UNCHANGED <<peer_running, neighbors, message_list, msg_counter, gossip_loop,
                   net, sends, originated, injected, detectorVars>>
    /\ UNCHANGED seedVars

\* peers that start one after the other, may stop, and run their failure detectors
LifeNext ==
    \/ \E x \in StartingPeers : \E chosen \in Samples(NumChosen) :
          Starting < MaxStarting /\ PeerStart(x, chosen)
    \/ \E x \in StartingPeers : RegisterSend(x)
    \/ \E x \in StartingPeers : RegisterReply(x)
    \/ \E x \in StartingPeers : RegisterDone(x)
    \/ \E x \in StartingPeers : FetchPeerList(x)
    \/ \E x \in StartingPeers : FetchDone(x)
    \/ \E x \in StartingPeers : OverlayBegin(x) /\ UNCHANGED seedVars
    \/ \E x \in StartingPeers : \E pid \in Pickable(x) : OverlayAttempt(x, pid) /\ UNCHANGED seedVars
    \/ \E x \in StartingPeers : OverlayEnd(x) /\ UNCHANGED seedVars
    \/ \E x \in StartingPeers : StartThreads(x) /\ UNCHANGED seedVars
    \/ \E x \in StartingPeers : start[x].phase = "active" /\ PeerStop(x) /\ UNCHANGED seedVars
    \/ \E x \in StartingPeers : PingAllNeighbors(x) /\ UNCHANGED seedVars
    \/ \E x \in StartingPeers : CheckSuspicions(x) /\ UNCHANGED seedVars
    \/ \E x \in StartingPeers, s \in StartingPeers : BeginRound(x, s) /\ UNCHANGED seedVars
    \/ \E x \in StartingPeers : EndRound(x)
    \/ \E c \in DOMAIN conns : OnRegisterRequest(c) /\ UNCHANGED gossipVars
    \/ \E c \in DOMAIN conns : CollectRegisterVote(c) /\ UNCHANGED gossipVars
    \/ \E c \in DOMAIN conns : DecideRegistration(c) /\ UNCHANGED gossipVars

\* ================================================================== specifications
\* peers that start against the seeds, while a seed may stop
StartSpecInit == SeedInit /\ StartInit

StartSpec == StartSpecInit /\ [][StartNext]_vars

LifeSpec == StartSpecInit /\ [][LifeNext]_vars

\* the overlay build of one peer over every number of candidates
OverlaySpecInit == OverlayInit /\ SeedIdle

OverlaySpec == OverlaySpecInit /\ [][OverlayNext]_vars

\* the failure detector of all the peers, while peers stop
DetectorSpecInit == GossipInit /\ SeedIdle

DetectorSpec == DetectorSpecInit /\ [][DetectorNext]_vars

\* the failure detector of all the peers, with late PONGs
DetectorLossySpec == DetectorSpecInit /\ [][DetectorLossyNext]_vars

SeedSpecInit == SeedInit /\ GossipIdle

SeedSpec == SeedSpecInit /\ [][SeedNext /\ UNCHANGED gossipVars]_vars

\* The seeds' threads keep running: every seed leaves its 15 s sleep again and again
\* (_sync_loop), and a started sync round goes on to the next seed.
SeedFairness ==
    \A s \in SeedIds : SF_vars(SyncStartBounded(s) /\ UNCHANGED gossipVars)
                        /\ WF_vars(SyncSend(s) /\ UNCHANGED gossipVars)

SeedLiveSpec == SeedSpecInit /\ [][SeedNext /\ UNCHANGED gossipVars]_vars /\ SeedFairness

\* the seeds, with the decision steps entered by further threads
SeedReentrySpec == SeedSpecInit /\ [][SeedReentryNext /\ UNCHANGED gossipVars]_vars

\* the registration handlers of the seeds, with replayed proposals
SeedReplaySpec == SeedSpecInit /\ [][SeedReplayNext /\ UNCHANGED gossipVars]_vars

\* ================================================================== dead-node removal, end to end
\* The peers known to the seeds have each registered through seed 1, which every other
\* seed voted for, and one sync round of seed 1 has carried them to every seed.
RegisteredEverywhere ==
    /\ total_seeds \in 1..MaxSeeds
    /\ running = [s \in SeedIds |-> s <= total_seeds]
    /\ peer_list = [s \in SeedIds |->
          IF s <= total_seeds THEN [p \in PeerIds |-> [joined |-> p]] ELSE EmptyDict]
    /\ proposals = [s \in SeedIds |->
          IF s <= total_seeds
          THEN [pid \in PeerIds |->
                  [type |-> "register", peer_id |-> pid, proposer |-> 1,
                   votes |-> IF s = 1 THEN [t \in 1..total_seeds |-> TRUE] ELSE (s :> TRUE),
                   decided |-> (s = 1)]]
          ELSE EmptyDict]
    /\ pending_responses = [s \in SeedIds |-> EmptyDict]
    /\ conns = [p \in PeerIds |->
          [type |-> "REGISTER_REQUEST", seed |-> 1, peer |-> p, state |-> "done",
           pid |-> p, next |-> total_seeds,
           out |-> <<Msg("REGISTER_ACK", [peer_id |-> p, message |-> "Registration approved"])>>]]
    /\ sync = [s \in SeedIds |-> [phase |-> "sleep", my_peers |-> EmptyDict, next |-> 0]]
    /\ sent = {[type |-> "PROPOSE_REGISTER", proposal_id |-> p, peer_id |-> p,
                proposer |-> 1, to |-> t] : p \in PeerIds, t \in 2..total_seeds}
              \cup {VoteMsg("VOTE_REGISTER", p, t, TRUE, 1) : p \in PeerIds, t \in 2..total_seeds}
    /\ outcomes = {[proposal_id |-> p, type |-> "register", peer_id |-> p, seed |-> 1,
                    approved |-> TRUE, yes |-> total_seeds, total |-> total_seeds,
                    nth |-> 1] : p \in PeerIds}
    /\ last_approved = [p \in PeerIds |-> "register"]

\* The registered peers have started one after the other, each taking the peers before
\* it as its neighbors (_build_overlay picks among the peers the seeds already list);
\* no gossip has been generated yet.
OverlayBuilt ==
    /\ start = [x \in OverlayPeers |->
          IF x \in PeerIds
          THEN [StartedPeer EXCEPT !.known_peers = {y \in PeerIds : y < x},
                                   !.selected = {y \in PeerIds : y < x}]
          ELSE NoStart]
    /\ peer_running = [x \in OverlayPeers |-> x \in PeerIds]
    /\ neighbors = [x \in OverlayPeers |->
          IF x \in PeerIds THEN {y \in PeerIds : y < x} ELSE {}]
    /\ message_list = [x \in OverlayPeers |-> EmptyDict]
    /\ msg_counter = [x \in OverlayPeers |-> 0]
    /\ gossip_loop = [x \in OverlayPeers |-> "run"]
    /\ net = EmptyBag
    /\ sends = EmptyBag
    /\ originated = [x \in OverlayPeers |-> <<>>]
    /\ injected = 0
    /\ suspicion_counts = [x \in OverlayPeers |-> EmptyDict]
    /\ suspected_nodes = [x \in OverlayPeers |-> {}]
    /\ liveness = [x \in OverlayPeers |-> IdleLiveness]
    /\ reports = {}
    /\ reader = NoReader
    /\ io_log = {}
    /\ threads = NoThreads

\* A peer may stop; the liveness threads of the peers, the seeds' handlers of the
\* dead-node reports and the seeds' sync threads run.  No seed stops.  A round has the
\* other neighbors of the reporter to query, of which there are none here.
RegisteredStopped == Cardinality({x \in PeerIds : ~peer_running[x]})

RemovalNext ==
    \/ \E x \in PeerIds : RegisteredStopped < MaxPeerStops /\ PeerStop(x) /\ UNCHANGED seedVars
    \/ \E x \in PeerIds : PingAllNeighbors(x) /\ UNCHANGED seedVars
    \/ \E x \in PeerIds : CheckSuspicions(x) /\ UNCHANGED seedVars
    \/ \E x \in PeerIds, s \in PeerIds : BeginRound(x, s) /\ UNCHANGED seedVars
    \/ \E x \in PeerIds : EndRound(x)
    \/ \E c \in DOMAIN conns : OnDeadNodeReport(c) /\ UNCHANGED gossipVars
    \/ \E c \in DOMAIN conns : CollectRemoveVote(c) /\ UNCHANGED gossipVars
    \/ \E c \in DOMAIN conns : DecideRemoval(c) /\ UNCHANGED gossipVars
    \/ \E s \in SeedIds : SyncStartBounded(s) /\ UNCHANGED gossipVars
    \/ \E s \in SeedIds : SyncSend(s) /\ UNCHANGED gossipVars

\* Every thread keeps running: the liveness loop of a running peer goes through its
\* rounds, a seed handles every connection it has accepted to the end, and the sync
\* threads go on as in SeedFairness.
RemovalFairness ==
    /\ \A x \in PeerIds :
          /\ WF_vars(PingAllNeighbors(x) /\ UNCHANGED seedVars)
          /\ WF_vars(CheckSuspicions(x) /\ UNCHANGED seedVars)
          /\ WF_vars(\E s \in PeerIds : BeginRound(x, s) /\ UNCHANGED seedVars)
          /\ WF_vars(EndRound(x))
    /\ WF_vars(\E c \in DOMAIN conns : OnDeadNodeReport(c) /\ UNCHANGED gossipVars)
    /\ WF_vars(\E c \in DOMAIN conns : CollectRemoveVote(c) /\ UNCHANGED gossipVars)
    /\ WF_vars(\E c \in DOMAIN conns : DecideRemoval(c) /\ UNCHANGED gossipVars)
    /\ SeedFairness

RemovalSpecInit == RegisteredEverywhere /\ OverlayBuilt

RemovalSpec == RemovalSpecInit /\ [][RemovalNext]_vars /\ RemovalFairness

\* ------------------------------------------------------------------ votes that come too late
\* a proposer that asks the same seed again after a timeout
RetryAfterTimeout(i) == i

\* "for seed in self.other_seeds" after _send_to_seed_with_response has returned no
\* message: the loop goes on to the next seed
AfterTimeout(i) == i + 1

\* One iteration of the loop of _on_register_request in which seed t is running but
\* its VOTE_REGISTER does not come within the timeout of _send_to_seed_with_response:
\* t has handled the proposal, the proposer records nothing.
CollectRegisterVoteLate(c) ==
    LET cn == conns[c]
        s == cn.seed
        pid == cn.pid
        others == OtherSeeds(s)
    IN
    /\ cn.type = "REGISTER_REQUEST" /\ cn.state = "collect" /\ running[s]
    /\ cn.next <= Len(others)
    /\ LET t == others[cn.next]
           vote == VoteRegister(t, cn.peer)
       IN /\ running[t]
          /\ sent' = sent \cup {[type |-> "PROPOSE_REGISTER", proposal_id |-> pid,
                                 peer_id |-> cn.peer, proposer |-> s, to |-> t],
                                VoteMsg("VOTE_REGISTER", pid, t, vote, s)}
          /\ proposals' = [proposals EXCEPT
                 ![t] = RecordProposal(@, pid, "register", cn.peer, s, t, vote)]
    /\ conns' = [conns EXCEPT ![c].next = AfterTimeout(@)]
    /\ UNCHANGED <<total_seeds, running, peer_list, pending_responses, sync,
                   outcomes, last_approved>>

\* the same in the loop of _on_dead_node_report
CollectRemoveVoteLate(c) ==
    LET cn == conns[c]
        s == cn.seed
        pid == cn.pid
        others == OtherSeeds(s)
    IN
    /\ cn.type = "DEAD_NODE_REPORT" /\ cn.state = "collect" /\ running[s]
    /\ cn.next <= Len(others)
    /\ LET t == others[cn.next]
           vote == VoteRemove(t, cn.peer)
       IN /\ running[t]
          /\ sent' = sent \cup {[type |-> "PROPOSE_REMOVE", proposal_id |-> pid,
                                 peer_id |-> cn.peer, proposer |-> s, to |-> t],
                                VoteMsg("VOTE_REMOVE", pid, t, vote, s)}
          /\ proposals' = [proposals EXCEPT
                 ![t] = RecordProposal(@, pid, "remove", cn.peer, s, t, vote)]
    /\ conns' = [conns EXCEPT ![c].next = AfterTimeout(@)]
    /\ UNCHANGED <<total_seeds, running, peer_list, pending_responses, sync,
                   outcomes, last_approved>>

\* the seeds' consensus handlers when other seeds may be stopped or answer too late
SeedSilentNext ==
    \/ \E s \in SeedIds, p \in PeerIds : ClientRegister(s, p)
    \/ \E s \in SeedIds, p \in PeerIds : ClientReport(s, p)
    \/ \E c \in DOMAIN conns : OnRegisterRequest(c)
    \/ \E c \in DOMAIN conns : CollectRegisterVote(c)
    \/ \E c \in DOMAIN conns : CollectRegisterVoteLate(c)
    \/ \E c \in DOMAIN conns : DecideRegistration(c)
    \/ \E c \in DOMAIN conns : OnDeadNodeReport(c)
    \/ \E c \in DOMAIN conns : CollectRemoveVote(c)
    \/ \E c \in DOMAIN conns : CollectRemoveVoteLate(c)
    \/ \E c \in DOMAIN conns : DecideRemoval(c)
    \/ \E s \in SeedIds : Stopped < MaxStops /\ SeedStop(s)

\* one step of the handler thread of connection c
HandlerStep(c) ==
    /\ c \in DOMAIN conns
    /\ \/ OnRegisterRequest(c) \/ CollectRegisterVote(c) \/ CollectRegisterVoteLate(c)
       \/ DecideRegistration(c)
       \/ OnDeadNodeReport(c) \/ CollectRemoveVote(c) \/ CollectRemoveVoteLate(c)
       \/ DecideRemoval(c)

\* _handle_connection runs in a thread of its own for each connection, and every
\* socket call of a handler has a timeout
SeedSilentFairness == \A c \in 1..MaxConns : WF_vars(HandlerStep(c) /\ UNCHANGED gossipVars)

SeedSilentSpec == SeedSpecInit /\ [][SeedSilentNext /\ UNCHANGED gossipVars]_vars /\ SeedSilentFairness

\* ------------------------------------------------------------------ reports about registered peers
\* the DEAD_NODE_REPORT connections of the run
ReportsArrived == Cardinality({c \in DOMAIN conns : conns[c].type = "DEAD_NODE_REPORT"})

\* A DEAD_NODE_REPORT for p reaches seed s (from _report_dead_node of a peer, one
\* connection for each reporter, or from the test client)
ReportArrives(s, p) ==
    /\ ReportsArrived < MaxReports
    /\ s \in ConfigSeeds /\ running[s]
    /\ conns' = Append(conns, NewConn("DEAD_NODE_REPORT", s, p))
    /\ UNCHANGED <<total_seeds, running, peer_list, proposals, pending_responses,
                   sync, sent, outcomes, last_approved>>

\* the seeds' removal handlers, with the peers registered at every seed
ReportedNext ==
    \/ \E s \in SeedIds, p \in PeerIds : ReportArrives(s, p)
    \/ \E c \in DOMAIN conns : OnDeadNodeReport(c)
    \/ \E c \in DOMAIN conns : CollectRemoveVote(c)
    \/ \E c \in DOMAIN conns : DecideRemoval(c)
    \/ \E s \in SeedIds : Stopped < MaxStops /\ SeedStop(s)

ReportedSpecInit == RegisteredEverywhere /\ GossipIdle

ReportedSpec == ReportedSpecInit /\ [][ReportedNext /\ UNCHANGED gossipVars]_vars

\* ------------------------------------------------------------------ reports while seeds stop
\* The registered peers gossip and run their failure detectors while a peer and a seed
\* may stop; what the seeds do with the reports is left to RemovalSpec.
ReportNext ==
    \/ \E x \in PeerIds : RegisteredStopped < MaxPeerStops /\ PeerStop(x) /\ UNCHANGED seedVars
    \/ \E s \in SeedIds : Stopped < MaxStops /\ SeedStop(s) /\ UNCHANGED gossipVars
    \/ \E x \in PeerIds : Generated < MaxGenerated /\ GenerateGossip(x) /\ UNCHANGED seedVars
    \/ \E m \in BagToSet(net) : OnGossip(m) /\ UNCHANGED seedVars
    \/ \E x \in PeerIds : PingAllNeighbors(x) /\ UNCHANGED seedVars
    \/ \E x \in PeerIds : CheckSuspicions(x) /\ UNCHANGED seedVars
    \/ \E x \in PeerIds, s \in PeerIds : BeginRound(x, s) /\ UNCHANGED seedVars
    \/ \E x \in PeerIds : EndRound(x)

ReportSpec == RemovalSpecInit /\ [][ReportNext]_vars

\* ================================================================== claims
InList(s, p) == p \in DOMAIN peer_list[s]

Acked(c) == \E i \in DOMAIN conns[c].out : conns[c].out[i].type = "REGISTER_ACK"

\* C1: every PeerId in a seed's membership is backed by an approved register
\* decision that no approved remove decision for it has followed.
C1_MembershipBackedByLatestRegister ==
    \A s \in SeedIds, p \in PeerIds : InList(s, p) => last_approved[p] = "register"

\* C2: a register proposal is decided approved if and only if its YES votes at
\* decision time are at least floor(N/2)+1, also when fewer than N seeds replied.
C2_ApprovedIffQuorum ==
    \A d \in outcomes : d.type = "register" => (d.approved <=> d.yes >= Quorum)

\* C3: a seed deletes a PeerId only in the decision step of a remove proposal it
\* proposed itself, with at least floor(N/2)+1 YES votes from distinct seeds.
C3_DeleteOnlyByOwnApprovedRemoval ==
    [][\A s \in SeedIds, p \in PeerIds :
         (InList(s, p) /\ p \notin DOMAIN peer_list'[s]) =>
            \E c \in DOMAIN conns :
               /\ conns[c].type = "DEAD_NODE_REPORT" /\ conns[c].seed = s
               /\ conns[c].peer = p
               /\ conns[c].state = "collect" /\ conns'[c].state = "done"
               /\ LET prop == proposals[s][conns[c].pid] IN
                    /\ prop.type = "remove" /\ prop.proposer = s /\ prop.peer_id = p
                    /\ ~prop.decided /\ proposals'[s][conns[c].pid].decided
                    /\ DOMAIN prop.votes \subseteq ConfigSeeds
                    /\ Cardinality({v \in DOMAIN prop.votes : prop.votes[v]}) >= (total_seeds \div 2) + 1
      ]_vars

C3_Witness ==
    \E d \in outcomes : /\ d.type = "remove" /\ d.approved /\ d.yes >= 2
                        /\ ~InList(d.seed, d.peer_id)

\* C4: a REGISTER_REQUEST for a PeerId already in the membership is answered with
\* REGISTER_ACK at once; no proposal is created, no PROPOSE_REGISTER is sent and the
\* membership, joined times included, is unchanged.
C4_ReRegisterIsIdempotent ==
    [][\A c \in DOMAIN conns :
         (/\ conns[c].type = "REGISTER_REQUEST" /\ conns[c].state = "sent"
          /\ conns'[c].state # "sent"
          /\ InList(conns[c].seed, conns[c].peer)) =>
            /\ conns'[c].state = "done"
            /\ Len(conns'[c].out) = 1 /\ conns'[c].out[1].type = "REGISTER_ACK"
            /\ conns'[c].pid = 0
            /\ proposals' = proposals
            /\ pending_responses' = pending_responses
            /\ sent' = sent
            /\ peer_list' = peer_list
      ]_vars

C4_Witness ==
    \E c \in DOMAIN conns :
        /\ conns[c].type = "REGISTER_REQUEST" /\ conns[c].state = "done"
        /\ conns[c].pid = 0 /\ Acked(c)
        /\ InList(conns[c].seed, conns[c].peer)

\* C9: a DEAD_NODE_REPORT for a PeerId that is not in the membership creates no
\* proposal, sends no PROPOSE_REMOVE and leaves membership and proposals unchanged.
C9_UnknownDeadNodeIgnored ==
    [][\A c \in DOMAIN conns :
         (/\ conns[c].type = "DEAD_NODE_REPORT" /\ conns[c].state = "sent"
          /\ conns'[c].state # "sent"
          /\ ~InList(conns[c].seed, conns[c].peer)) =>
            /\ conns'[c].state = "done"
            /\ conns'[c].pid = 0
            /\ proposals' = proposals
            /\ sent' = sent
            /\ peer_list' = peer_list
      ]_vars

C9_Witness ==
    \E c \in DOMAIN conns :
        /\ conns[c].type = "DEAD_NODE_REPORT" /\ conns[c].state = "done"
        /\ conns[c].pid = 0
        /\ \E s \in SeedIds : peer_list[s] # EmptyDict

\* C10: once a seed has answered REGISTER_ACK for p, then, unless a seed stops or a
\* remove proposal for p is approved, eventually p is in every seed's membership.
RemoveApproved(p) ==
    \E d \in outcomes : d.type = "remove" /\ d.approved /\ d.peer_id = p

C10_AckedPeerReachesEverySeed ==
    \A c \in 1..MaxConns :
        (c \in DOMAIN conns /\ Acked(c)) ~>
            (/\ c \in DOMAIN conns
             /\ \/ \A s \in ConfigSeeds : InList(s, conns[c].peer)
                \/ RemoveApproved(conns[c].peer)
                \/ \E s \in ConfigSeeds : ~running[s])

C10_Witness ==
    \E c \in DOMAIN conns :
        /\ Acked(c) /\ total_seeds = MaxSeeds
        /\ \A s \in ConfigSeeds : InList(s, conns[c].peer) /\ running[s]
        /\ ~RemoveApproved(conns[c].peer)


\* first receipts recorded in the gossip stores
FirstReceipts(x) == {h \in DOMAIN message_list[x] : message_list[x][h].from # x}

AllFirstReceipts ==
    {xh \in OverlayPeers \X UNION {DOMAIN message_list[x] : x \in OverlayPeers} :
        xh[2] \in FirstReceipts(xh[1])}

\* C5: a GOSSIP whose msg_hash is already in the store is a no-op: the store and
\* its first-written record are unchanged and no GOSSIP is forwarded.
C5_DuplicateGossipIsNoOp ==
    [][\A m \in BagToSet(net) :
         (CopiesIn(m, net') < CopiesIn(m, net) /\ m.msg_hash \in DOMAIN message_list[m.to]) =>
            /\ message_list' = message_list
            /\ sends' = sends
            /\ net' = net (-) SetToBag({m})
      ]_vars

\* every frame sent or injected has been handled, and more frames than first receipts
C5_Witness ==
    /\ net = EmptyBag /\ injected = MaxInjected
    /\ \E x \in OverlayPeers : neighbors[x] # {} /\ FirstReceipts(x) # {}
    /\ BagCardinality(sends) + injected > Cardinality(AllFirstReceipts)

\* C6: a peer sends GOSSIP carrying a given hash to a given neighbor at most once.
C6_ForwardAtMostOncePerNeighbor ==
    \A r \in BagToSet(sends) : CopiesIn(r, sends) <= 1

\* two copies of the test message were injected, one of them arrived as a duplicate,
\* and the message was forwarded
C6_Witness ==
    /\ net = EmptyBag /\ injected = 2
    /\ Cardinality({x \in OverlayPeers : \E h \in DOMAIN message_list[x] :
                       message_list[x][h].from = TestClient}) = 1
    /\ \E r \in BagToSet(sends) : r.msg_hash.sha256[1] = TestClient

\* C7: msg_counter never exceeds 10, and the MsgNums a peer originates are 1, 2, ..., k
\* in that order, each used once.
C7_OriginatorCounterCapped ==
    \A x \in OverlayPeers :
        /\ msg_counter[x] <= 10
        /\ originated[x] = [i \in 1..msg_counter[x] |-> i]
        /\ \A i \in 1..msg_counter[x] :
              LET h == hash_message(gossip_message_id(x, i)) IN
              h \in DOMAIN message_list[x] /\ message_list[x][h].msg_num = i

C7_Witness ==
    \E x \in OverlayPeers : msg_counter[x] = 10 /\ gossip_loop[x] = "exit"
                            /\ Len(originated[x]) = 10

\* C8: a peer removes a neighbor and builds a DEAD_NODE_REPORT for it only in the
\* step that ends a suspicion round of that neighbor, with every other neighbor
\* queried, total = 1 + the number queried, confirm = 1 + the number that answered
\* confirmed = true, and confirm >= floor(total / 2) + 1.
ReportsBy(x) == {r \in reports : r.reporter_id = x}

C8_RemovalNeedsRoundQuorum ==
    [][\A x \in OverlayPeers :
         (neighbors'[x] # neighbors[x] \/ ReportsBy(x)' # ReportsBy(x)) =>
            LET lv == liveness[x] IN
            /\ lv.phase = "rounds" /\ lv.suspect # None /\ lv.others = {}
            /\ lv.queried = neighbors[x] \ {lv.suspect}
            /\ lv.confirmed \subseteq lv.queried
            /\ lv.total = 1 + Cardinality(lv.queried)
            /\ lv.confirm = 1 + Cardinality(lv.confirmed)
            /\ lv.confirm >= (lv.total \div 2) + 1
            /\ neighbors'[x] = neighbors[x] \ {lv.suspect}
            /\ ReportsBy(x)' = ReportsBy(x) \cup
                  {[dead_peer_id |-> lv.suspect, reporter_id |-> x,
                    peer_votes |-> lv.confirm]}
            /\ liveness'[x].suspect = None]_vars

\* a peer has declared a neighbor dead on its own vote and one other neighbor's, and
\* another peer stands at the end of a round in which the neighbor it queried did not
\* confirm, so that the round lacks the quorum
C8_Witness ==
    /\ \E r \in reports :
          /\ r.peer_votes = 2
          /\ r.dead_peer_id \notin neighbors[r.reporter_id]
          /\ neighbors[r.reporter_id] # {}
    /\ \E x \in OverlayPeers :
          /\ liveness[x].phase = "rounds" /\ liveness[x].suspect # None
          /\ liveness[x].others = {} /\ liveness[x].queried # {}
          /\ liveness[x].confirm < (liveness[x].total \div 2) + 1

\* C12: for every proposal_id a seed emits at most one terminal decision, and the
\* connection that opened the proposal gets at most one REGISTER_ACK / REGISTER_NACK,
\* also when further threads enter the decision step of the same proposal.
C12_AtMostOneDecision ==
    /\ \A d \in outcomes : d.nth = 1
    /\ \A d1 \in outcomes, d2 \in outcomes :
          (d1.seed = d2.seed /\ d1.proposal_id = d2.proposal_id) => d1 = d2
    /\ \A c \in DOMAIN conns : Len(conns[c].out) <= 1

\* a register proposal was decided by a thread that entered the decision step while
\* the handler was still collecting votes, the handler has since made its own call,
\* and a removal was decided and its handler is done too
C12_Witness ==
    /\ \E c \in DOMAIN conns, d \in outcomes :
          /\ conns[c].type = "REGISTER_REQUEST" /\ conns[c].state = "done"
          /\ d.proposal_id = conns[c].pid /\ d.seed = conns[c].seed
          /\ d.total < total_seeds
    /\ \E c \in DOMAIN conns :
          /\ conns[c].type = "DEAD_NODE_REPORT" /\ conns[c].state = "done"
          /\ conns[c].pid # 0

\* C13: once a seed holds an entry for a PeerId, no step changes that entry (its
\* joined time included) while the PeerId stays in the membership: a further approved
\* register decision for it is skipped.
C13_EntryNeverOverwritten ==
    [][\A s \in SeedIds, p \in PeerIds :
         (InList(s, p) /\ p \in DOMAIN peer_list'[s]) => peer_list'[s][p] = peer_list[s][p]]_vars

\* C14: with one configured seed, the handler of every REGISTER_REQUEST ends with the
\* peer in the membership and REGISTER_ACK as the one reply, the handler of every
\* DEAD_NODE_REPORT ends with the peer out of the membership, every decision is
\* approved on the seed's own vote alone, and no PROPOSE_* message is sent.
Finishes(c) == conns[c].state # "done" /\ conns'[c].state = "done"

C14_SingleSeedDecidesAlone ==
    [][total_seeds = 1 =>
         /\ sent' = {}
         /\ \A d \in outcomes' : d.approved /\ d.yes = 1 /\ d.total = 1
         /\ \A c \in DOMAIN conns :
               Finishes(c) =>
                  /\ conns[c].type = "REGISTER_REQUEST" =>
                        /\ conns[c].peer \in DOMAIN peer_list'[conns[c].seed]
                        /\ Len(conns'[c].out) = 1
                        /\ conns'[c].out[1].type = "REGISTER_ACK"
                  /\ conns[c].type = "DEAD_NODE_REPORT" =>
                        conns[c].peer \notin DOMAIN peer_list'[conns[c].seed]]_vars

\* the single seed has registered a peer and then removed it on a report
C14_Witness ==
    /\ total_seeds = 1 /\ Len(conns) = 2
    /\ conns[1].type = "REGISTER_REQUEST" /\ conns[1].state = "done" /\ conns[1].pid # 0
    /\ conns[2].type = "DEAD_NODE_REPORT" /\ conns[2].state = "done" /\ conns[2].pid # 0
    /\ conns[2].peer = conns[1].peer
    /\ ~InList(1, conns[1].peer)
    /\ \E d \in outcomes : d.type = "remove" /\ d.approved

\* C15: a seed answers GET_PEER_LIST with exactly one PEER_LIST whose peers map is its
\* membership at the moment of handling, and handling it changes no seed state.
C15_PeerListIsSnapshot ==
    [][\A c \in DOMAIN conns :
         (conns[c].type = "GET_PEER_LIST" /\ conns'[c] # conns[c]) =>
            /\ conns[c].out = <<>>
            /\ conns'[c].out = <<Msg("PEER_LIST", [peers |-> peer_list[conns[c].seed],
                                                   seed_id |-> conns[c].seed])>>
            /\ conns'[c].state = "done"
            /\ UNCHANGED <<total_seeds, running, peer_list, proposals, pending_responses,
                           sync, sent, outcomes, last_approved>>]_vars

\* a GET_PEER_LIST was answered with a map that holds a registered peer
C15_Witness ==
    \E c \in DOMAIN conns :
        /\ conns[c].type = "GET_PEER_LIST" /\ conns[c].state = "done"
        /\ Len(conns[c].out) = 1
        /\ conns[c].out[1].payload.peers # EmptyDict
        /\ conns[c].out[1].payload.peers = peer_list[conns[c].seed]

\* C16: handling SEED_SYNC is a union: the receiver's keys become its old keys plus
\* the keys of the snapshot received, every entry it had is unchanged, every new entry
\* is the sender's, and no seed loses a PeerId in the step.
C16_SyncIsUnion ==
    [][\A s \in SeedIds :
         (sync[s].phase = "send" /\ sync'[s] # sync[s]) =>
            LET t == OtherSeeds(s)[sync[s].next]
                snap == sync[s].my_peers
            IN
            /\ \A u \in SeedIds \ {t} : peer_list'[u] = peer_list[u]
            /\ ~running[t] => peer_list'[t] = peer_list[t]
            /\ running[t] =>
                  /\ DOMAIN peer_list'[t] = (DOMAIN peer_list[t]) \cup (DOMAIN snap)
                  /\ \A q \in DOMAIN peer_list[t] : peer_list'[t][q] = peer_list[t][q]
                  /\ \A q \in (DOMAIN snap) \ (DOMAIN peer_list[t]) :
                        peer_list'[t][q] = snap[q]]_vars

\* a seed holds one entry that it decided itself and one that it merged from a sync
C16_Witness ==
    \E t \in ConfigSeeds, p \in PeerIds, q \in PeerIds :
        /\ p # q /\ InList(t, p) /\ InList(t, q)
        /\ \E d \in outcomes : d.proposal_id = peer_list[t][p].joined /\ d.seed = t
        /\ \E d \in outcomes : d.proposal_id = peer_list[t][q].joined /\ d.seed # t

\* C18: a REGISTER_REQUEST that opened a proposal gets at most one reply, exactly one
\* once its handler has ended, and none before the proposal is decided; the reply is
\* sent on the connection held pending, a REGISTER_ACK only with the peer inserted at
\* that seed, and the PendingResponses entry of the proposal is gone from then on.
C18_OneReplyAfterDecision ==
    [][\A c \in DOMAIN conns' :
         (conns'[c].type = "REGISTER_REQUEST" /\ conns'[c].pid # 0) =>
            LET s == conns'[c].seed
                pid == conns'[c].pid
                reply == conns'[c].out
            IN
            /\ Len(reply) <= 1
            /\ conns'[c].state = "done" => Len(reply) = 1
            /\ reply # <<>> =>
                  /\ reply[1].type \in {"REGISTER_ACK", "REGISTER_NACK"}
                  /\ proposals'[s][pid].decided
                  /\ pid \notin DOMAIN pending_responses'[s]
            /\ (reply # <<>> /\ c \in DOMAIN conns /\ conns[c].out = <<>>) =>
                  /\ pid \in DOMAIN pending_responses[s] /\ pending_responses[s][pid] = c
                  /\ reply[1].type = "REGISTER_ACK" => conns'[c].peer \in DOMAIN peer_list'[s]]_vars

\* with three seeds, a registration that opened a proposal was answered REGISTER_ACK
\* and another one is still held pending
C18_Witness ==
    /\ total_seeds = 3
    /\ \E c \in DOMAIN conns :
          /\ conns[c].type = "REGISTER_REQUEST" /\ conns[c].pid # 0
          /\ conns[c].state = "done" /\ conns[c].out[1].type = "REGISTER_ACK"
          /\ pending_responses[conns[c].seed] # EmptyDict

\* C17: once a peer has built its overlay over n candidates, its neighbor count d is
\* 0 when n = 0, 1 when n = 1, and 1 <= d <= min(5, n, floor(log2(n+1)) + 1) for
\* n >= 1, and its neighbors are candidates, itself not among them.
Log2Floor(k) == CHOOSE e \in 0..k : 2^e <= k /\ k < 2^(e + 1)

C17_DegreeBounds ==
    \A x \in OverlayPeers :
        start[x].phase \in {"threads", "active"} =>
            LET n == Cardinality(start[x].known_peers)
                d == Cardinality(neighbors[x])
            IN
            /\ neighbors[x] \subseteq start[x].known_peers /\ x \notin neighbors[x]
            /\ n = 0 => d = 0
            /\ n = 1 => d = 1
            /\ n >= 1 => /\ 1 <= d /\ d <= 5 /\ d <= n
                         /\ d <= Log2Floor(n + 1) + 1

\* over 31 candidates the peer has five neighbors, the cap of max_degree
C17_Witness ==
    /\ start[1].phase = "active"
    /\ Cardinality(start[1].known_peers) = 31
    /\ Cardinality(neighbors[1]) = 5

\* C19: a peer sends REGISTER_REQUEST to min(floor(N/2)+1, N) distinct configured
\* seeds; it goes on to the peer lists, the overlay and its gossip and liveness
\* threads if and only if it has counted at least one REGISTER_ACK; with none it
\* stops, and has fetched no peer list, built no overlay, originated no gossip and
\* sent no ping.
AckedConns(x) ==
    {c \in DOMAIN conns : /\ conns[c].type = "REGISTER_REQUEST" /\ conns[c].peer = x
                          /\ conns[c].out # <<>> /\ conns[c].out[1].type = "REGISTER_ACK"}

C19_ActiveIffAcked ==
    \A x \in OverlayPeers :
        LET st == start[x] IN
        /\ st.phase # "off" =>
              /\ Len(st.chosen) = Min(Quorum, total_seeds)
              /\ \A i \in DOMAIN st.chosen : st.chosen[i] \in ConfigSeeds
              /\ \A i \in DOMAIN st.chosen, j \in DOMAIN st.chosen :
                    st.chosen[i] = st.chosen[j] => i = j
        /\ st.reg_sent = SubSeq(st.chosen, 1, Len(st.reg_sent))
        /\ st.phase \notin {"off", "register", "wait"} => st.reg_sent = st.chosen
        /\ st.ack_count <= Cardinality(AckedConns(x))
        /\ st.phase \in {"fetch", "overlay", "select", "threads", "active"} =>
              st.ack_count >= 1 /\ st.registered /\ peer_running[x]
        /\ st.registered => st.ack_count >= 1
        /\ st.phase = "failed" =>
              /\ st.ack_count = 0 /\ ~st.registered /\ ~peer_running[x]
        /\ st.phase # "active" =>
              /\ msg_counter[x] = 0 /\ originated[x] = <<>> /\ gossip_loop[x] = "off"
              /\ liveness[x].phase = "off" /\ suspicion_counts[x] = EmptyDict
        /\ st.phase \in {"off", "register", "wait", "failed"} =>
              st.fetched = {} /\ st.known_peers = {} /\ neighbors[x] = {}

\* one peer was refused by a stopped seed, counted no ACK and stopped; the other is
\* active with a neighbor, has originated a gossip message and has pinged
C19_Witness ==
    \E x \in StartingPeers, y \in StartingPeers :
        /\ start[x].phase = "failed" /\ start[x].reg_sent # <<>>
        /\ start[y].phase = "active" /\ msg_counter[y] = 1 /\ liveness[y].phase = "check"

\* C20: whenever a peer is active, some register proposal for it holds YES votes of
\* at least floor(N/2)+1 distinct seeds.
C20_ActiveOnlyAfterMajority ==
    \A x \in StartingPeers :
        start[x].phase = "active" =>
            \E s \in ConfigSeeds : \E pid \in DOMAIN proposals[s] :
                /\ proposals[s][pid].type = "register" /\ proposals[s][pid].peer_id = x
                /\ YesCount(proposals[s][pid].votes) >= Quorum

\* C11: once a registered peer has stopped while a running peer has it as a neighbor,
\* eventually no seed lists it, and it stays off every seed's list from then on.
C11_DeadPeerLeavesEverySeed ==
    \A p \in PeerIds :
        [](((~peer_running[p]) /\ (\E x \in PeerIds : peer_running[x] /\ p \in neighbors[x]))
             => <>[](\A s \in ConfigSeeds : ~InList(s, p)))

\* C25: the seed that a PROPOSE_REMOVE reaches answers with exactly one VOTE_REMOVE,
\* which carries the proposal_id of the proposal and, as its vote, whether the subject
\* is in the voter's membership at that moment; voting leaves its membership as it was.
NewlySent(type) == {m \in sent' \ sent : m.type = type}

C25_RemoveVoteIsMembership ==
    [][\A m \in NewlySent("PROPOSE_REMOVE") :
         /\ NewlySent("VOTE_REMOVE") =
               {VoteMsg("VOTE_REMOVE", m.proposal_id, m.to, InList(m.to, m.peer_id), m.proposer)}
         /\ peer_list'[m.to] = peer_list[m.to]
         /\ proposals'[m.to][m.proposal_id].votes = (m.to :> InList(m.to, m.peer_id))]_vars

\* one seed has voted NO on a removal of a peer it does not list, and a seed has voted
\* YES on a removal of a peer it lists
C25_Witness ==
    /\ \E m \in sent : m.type = "VOTE_REMOVE" /\ ~m.vote
                         /\ ~InList(m.voter, proposals[m.voter][m.proposal_id].peer_id)
    /\ \E m \in sent : m.type = "VOTE_REMOVE" /\ m.vote

\* C26: the seed that a PROPOSE_REGISTER reaches answers VOTE_REGISTER with vote YES;
\* in the step of the vote the proposal is in its proposals table, as the entry it
\* already had or else as a new entry with its own YES vote; its membership is as it was.
C26_RegisterVoteIsYes ==
    [][/\ \A v \in NewlySent("VOTE_REGISTER") :
             LET t == v.voter
                 pid == v.proposal_id
             IN
             /\ v.vote
             /\ pid \in DOMAIN proposals'[t]
             /\ pid \in DOMAIN proposals[t] => proposals'[t][pid] = proposals[t][pid]
             /\ pid \notin DOMAIN proposals[t] =>
                   /\ proposals'[t][pid].votes = (t :> TRUE)
                   /\ ~proposals'[t][pid].decided
             /\ peer_list'[t] = peer_list[t]
       /\ \A m \in NewlySent("PROPOSE_REGISTER") :
             \E v \in NewlySent("VOTE_REGISTER") :
                 v.proposal_id = m.proposal_id /\ v.voter = m.to]_vars

\* a proposer has voted once more on its own proposal, whose entry still holds the
\* votes it had collected, and a seed has voted for a peer that it does not list
C26_Witness ==
    /\ \E v \in sent :
          /\ v.type = "VOTE_REGISTER" /\ v.to = TestClient
          /\ proposals[v.voter][v.proposal_id].proposer = v.voter
          /\ Cardinality(DOMAIN proposals[v.voter][v.proposal_id].votes) >= 2
    /\ \E v \in sent :
          /\ v.type = "VOTE_REGISTER"
          /\ ~InList(v.voter, proposals[v.voter][v.proposal_id].peer_id)

MissCount(x, q) == IF q \in DOMAIN suspicion_counts[x] THEN suspicion_counts[x][q] ELSE 0

PingStep(x) == liveness[x].phase = "ping" /\ liveness'[x].phase = "check"

CancelStep(x, q) ==
    /\ liveness[x].phase = "rounds" /\ liveness[x].suspect = q /\ liveness'[x].suspect = None
    /\ liveness[x].confirm < (liveness[x].total \div 2) + 1

C28_MissCountCountsMisses ==
    [][\A x \in OverlayPeers, q \in OverlayPeers :
         /\ (PingStep(x) /\ q \in neighbors[x]) =>
               \/ MissCount(x, q)' = MissCount(x, q) + 1
                    /\ (q \in suspected_nodes'[x] <=> q \in suspected_nodes[x])
               \/ MissCount(x, q)' = 0 /\ q \notin suspected_nodes'[x]
         /\ MissCount(x, q)' # MissCount(x, q) =>
               \/ PingStep(x) /\ q \in neighbors[x]
               \/ CancelStep(x, q) /\ MissCount(x, q)' = 0
         /\ (liveness[x].suspect # q /\ liveness'[x].suspect = q) =>
               /\ q \in neighbors[x]
               /\ MissCount(x, q) >= suspicion_threshold
               /\ q \notin suspected_nodes[x]]_vars

\* a peer is in a round for a neighbor that it missed three times in a row, while
\* another neighbor of it, missed once or twice, is not suspected
C28_Witness ==
    \E x \in OverlayPeers, q \in OverlayPeers :
        /\ liveness[x].phase = "rounds" /\ liveness[x].suspect # None
        /\ MissCount(x, liveness[x].suspect) = suspicion_threshold
        /\ liveness[x].suspect \in suspected_nodes[x]
        /\ q \in neighbors[x] /\ q # liveness[x].suspect
        /\ MissCount(x, q) \in 1..(suspicion_threshold - 1)
        /\ q \notin suspected_nodes[x]

\* C29: the step that ends a round without a majority removes the suspect from
\* suspected_nodes and its miss count, keeps it among the neighbors, and builds and
\* sends no DEAD_NODE_REPORT; a round for a suspect starts only with
\* suspicion_threshold misses counted.
C29_CancelledRoundResets ==
    [][\A x \in OverlayPeers, q \in OverlayPeers :
         /\ CancelStep(x, q) =>
               /\ MissCount(x, q)' = 0
               /\ q \notin suspected_nodes'[x]
               /\ q \in neighbors[x] /\ neighbors'[x] = neighbors[x]
               /\ reports' = reports
               /\ conns' = conns
         /\ (liveness[x].suspect = None /\ liveness'[x].suspect = q) =>
               MissCount(x, q) >= suspicion_threshold]_vars

\* a call of _check_suspicions has cancelled the round of one suspect, which is still
\* a neighbor with no miss counted, and goes on with another suspect
C29_Witness ==
    \E x \in OverlayPeers :
        /\ liveness[x].phase = "rounds"
        /\ liveness[x].cancelled # {}
        /\ \A q \in liveness[x].cancelled :
              /\ q \in neighbors[x] /\ MissCount(x, q) = 0 /\ q \notin suspected_nodes[x]
              /\ \A r \in reports : ~(r.reporter_id = x /\ r.dead_peer_id = q)

\* C30: the step in which a round declares its suspect dead opens one connection with
\* a DEAD_NODE_REPORT for the suspect to every configured seed that is running, in
\* config order, and none to a stopped seed, and takes the suspect out of the
\* neighbors; neighbors are never added, and a peer counts misses for and sends GOSSIP
\* to its current neighbors only.
DeclareStep(x, q) ==
    /\ liveness[x].phase = "rounds" /\ liveness[x].suspect = q /\ liveness'[x].suspect = None
    /\ liveness[x].confirm >= (liveness[x].total \div 2) + 1

RunningSeeds == {s \in ConfigSeeds : running[s]}

C30_ReportToEverySeedThenForget ==
    [][\A x \in OverlayPeers :
         /\ \A q \in OverlayPeers :
               /\ DeclareStep(x, q) =>
                     /\ Len(conns') = Len(conns) + Cardinality(RunningSeeds)
                     /\ SubSeq(conns', 1, Len(conns)) = conns
                     /\ \A i \in (Len(conns) + 1)..Len(conns') :
                           /\ conns'[i] = NewConn("DEAD_NODE_REPORT", conns'[i].seed, q)
                           /\ conns'[i].seed \in RunningSeeds
                           /\ \A j \in (Len(conns) + 1)..Len(conns') :
                                 i < j => conns'[i].seed < conns'[j].seed
                     /\ neighbors'[x] = neighbors[x] \ {q}
               /\ MissCount(x, q)' > MissCount(x, q) => q \in neighbors[x]
         /\ neighbors'[x] \subseteq neighbors[x]
         /\ \A f \in BagToSet(sends') :
               (f.from = x /\ CopiesIn(f, sends') > CopiesIn(f, sends)) =>
                   f.to \in neighbors[x]]_vars

\* with the first seed stopped, a peer has declared its neighbor dead and reported it
\* to the seeds that run, and has originated a gossip message since without sending it
\* to the dead peer
C30_Witness ==
    \E x \in PeerIds, q \in PeerIds :
        /\ total_seeds >= 2 /\ ~running[1]
        /\ [dead_peer_id |-> q, reporter_id |-> x, peer_votes |-> 1] \in reports
        /\ q \notin neighbors[x]
        /\ \A s \in ConfigSeeds :
              running[s] <=> \E i \in DOMAIN conns :
                                conns[i] = NewConn("DEAD_NODE_REPORT", s, q)
        /\ msg_counter[x] = 1
        /\ \A f \in BagToSet(sends) : ~(f.from = x /\ f.to = q)

\* C23: every approved removal of a PeerId has a quorum of seed YES votes and is backed
\* by a DEAD_NODE_REPORT that a peer built at the end of a suspicion round with a
\* majority of corroborations.
C23_RemovalBackedByBothLevels ==
    \A d \in outcomes :
        (d.type = "remove" /\ d.approved) =>
            /\ d.yes >= Quorum
            /\ \E r \in reports : r.dead_peer_id = d.peer_id

\* C24: for every message hash the GOSSIP frames that peers have sent are never more
\* than the sum of the peers' neighbor counts, and eventually no GOSSIP frame is left
\* for a running peer to handle, for good; from then on nothing is sent.
Hashes == {f.msg_hash : f \in BagToSet(sends)}

SendsOf(h) == BagCardinality([f \in {g \in BagToSet(sends) : g.msg_hash = h} |-> CopiesIn(f, sends)])

RECURSIVE SumNeighbors(_)
SumNeighbors(S) ==
    IF S = {} THEN 0
    ELSE LET x == CHOOSE y \in S : TRUE
         IN Cardinality(neighbors[x]) + SumNeighbors(S \ {x})

NoneInFlight == \A m \in BagToSet(net) : ~peer_running[m.to]

C24_FloodingTerminates ==
    /\ [](\A h \in Hashes : SendsOf(h) <= SumNeighbors(OverlayPeers))
    /\ <>[]NoneInFlight
    /\ <>[][NoneInFlight => sends' = sends]_vars

\* on an overlay where every peer has a neighbor, a message that a peer originated has
\* reached every peer, has come back to its origin, and nothing is in flight
C24_Witness ==
    \E x \in OverlayPeers :
        LET h == hash_message(gossip_message_id(x, 1)) IN
        /\ msg_counter[x] = 1
        /\ net = EmptyBag
        /\ \A y \in OverlayPeers : neighbors[y] # {} /\ h \in DOMAIN message_list[y]
        /\ \E f \in BagToSet(sends) : f.msg_hash = h /\ f.to = x

\* ------------------------------------------------------------------ one connection, byte by byte
\* What a client can write as one record: a well-formed GET_PEER_LIST, text that
\* json.loads rejects, JSON that is not an object (a number, a list), an object whose
\* type no branch of _dispatch knows, and a PROPOSE_REGISTER whose payload has no
\* proposal_id.
RecordKinds == {"GET_PEER_LIST", "text", "scalar", "unknown", "short"}

Streams == UNION {[1..n -> RecordKinds] : n \in 1..MaxRecords}

\* MSG_DELIMITER
NL == [kind |-> "nl", n |-> 0]

\* the bytes of a stream: record i, then the delimiter; a record is cut no finer than
\* between its body and its delimiter
RECURSIVE BytesFrom(_, _)
BytesFrom(stream, i) ==
    IF i > Len(stream) THEN <<>>
    ELSE <<[kind |-> stream[i], n |-> i], NL>> \o BytesFrom(stream, i + 1)

Bytes(stream) == BytesFrom(stream, 1)

\* "MSG_DELIMITER in buffer"
HasDelimiter(buffer) == \E i \in 1..Len(buffer) : buffer[i] = NL

FirstDelimiter(buffer) ==
    CHOOSE i \in 1..Len(buffer) : buffer[i] = NL /\ \A j \in 1..(i - 1) : buffer[j] # NL

\* json.loads(line.decode('utf-8')) returns: the line is one body, and not text that
\* the decoder rejects; two bodies without a delimiter between them raise JSONDecodeError
Loads(line) == Len(line) = 1 /\ line[1].kind # "text"

\* parse_messages: (messages, remaining buffer)
RECURSIVE parse_messages(_)
parse_messages(buffer) ==
    IF ~HasDelimiter(buffer) THEN [messages |-> <<>>, buffer |-> buffer]
    ELSE LET i == FirstDelimiter(buffer)
             line == SubSeq(buffer, 1, i - 1)
             rest == parse_messages(SubSeq(buffer, i + 1, Len(buffer)))
         IN [messages |-> (IF Len(line) > 0 /\ Loads(line) THEN <<line[1]>> ELSE <<>>)
                              \o rest.messages,
             buffer |-> rest.buffer]

\* _dispatch raises: msg.get on a value that is not a dict (AttributeError), or
\* payload["proposal_id"] in _on_propose_register (KeyError)
DispatchRaises(m) == m.kind \in {"scalar", "short"}

\* "for m in msgs: self._dispatch(m, conn, addr)" from message i on: the records a
\* handler has served, the replies written to the connection, and whether an exception
\* left the loop
RECURSIVE DispatchFrom(_, _, _, _, _)
DispatchFrom(s, msgs, i, dispatched, out) ==
    IF i > Len(msgs) THEN [dispatched |-> dispatched, out |-> out, raised |-> FALSE]
    ELSE IF DispatchRaises(msgs[i]) THEN [dispatched |-> dispatched, out |-> out, raised |-> TRUE]
    ELSE IF msgs[i].kind = "GET_PEER_LIST"
         THEN DispatchFrom(s, msgs, i + 1, Append(dispatched, msgs[i].n),
                  Append(out, Msg("PEER_LIST", [peers |-> PeerListSnapshot(s), seed_id |-> s])))
    ELSE DispatchFrom(s, msgs, i + 1, dispatched, out)

\* _listen_loop accepts a connection on which a client is going to write stream
ReaderAccept(s, stream) ==
    /\ reader.state = "none"
    /\ s \in ConfigSeeds /\ running[s]
    /\ reader' = [NoReader EXCEPT !.seed = s, !.stream = stream, !.state = "open"]
    /\ UNCHANGED <<total_seeds, running, peer_list, proposals, pending_responses,
                   conns, sync, sent, outcomes, last_approved, peerVars, io_log, threads>>

\* one turn of the loop of _handle_connection: recv returns the next n bytes, the
\* buffer is parsed and every message of it dispatched; an exception that is neither
\* socket.timeout nor ConnectionResetError leaves the loop through "finally: conn.close()"
ReaderRecv(n) ==
    LET bytes == Bytes(reader.stream)
        data == SubSeq(bytes, reader.sent + 1, reader.sent + n)
        parsed == parse_messages(reader.buf \o data)
        d == DispatchFrom(reader.seed, parsed.messages, 1, reader.dispatched, reader.out)
    IN
    /\ reader.state = "open" /\ running[reader.seed]
    /\ n \in 1..(Len(bytes) - reader.sent)
    /\ reader' = [reader EXCEPT !.sent = @ + n, !.buf = parsed.buffer,
                                !.msgs = parsed.messages, !.dispatched = d.dispatched,
                                !.out = d.out,
                                !.state = IF d.raised THEN "raised" ELSE "open"]
    /\ UNCHANGED <<total_seeds, running, peer_list, proposals, pending_responses,
                   conns, sync, sent, outcomes, last_approved, peerVars, io_log, threads>>

\* recv returns b'' (the client has closed) or times out: break, conn.close()
ReaderClose ==
    /\ reader.state = "open"
    /\ reader' = [reader EXCEPT !.state = "closed"]
    /\ UNCHANGED <<total_seeds, running, peer_list, proposals, pending_responses,
                   conns, sync, sent, outcomes, last_approved, peerVars, io_log, threads>>

ReaderNext ==
    \/ \E s \in SeedIds, stream \in Streams : ReaderAccept(s, stream)
    \/ \E n \in 1..(2 * MaxRecords) : ReaderRecv(n)
    \/ ReaderClose

ReaderSpec == SeedSpecInit /\ [][ReaderNext]_vars

\* the records of the stream received so far, delimiter included, that are well formed
WellFormedReceived ==
    SelectSeq([i \in 1..(reader.sent \div 2) |-> i],
              LAMBDA i : reader.stream[i] = "GET_PEER_LIST")

\* C21: on one connection a malformed record never ends the connection handler, and
\* the well-formed records received so far, before and after any malformed record,
\* have been dispatched, in receive order.
C21_MalformedRecordsAreDropped ==
    reader.state # "none" =>
        /\ reader.state # "raised"
        /\ reader.dispatched = WellFormedReceived

\* ------------------------------------------------------------------ locks held at socket calls
\* one socket call of a seed's thread: the call, the message it carries, and the
\* mutexes whose "with" block encloses the call
Io(s, call, msg, holding) == [seed |-> s, call |-> call, msg |-> msg, holding |-> holding]

\* conn.recv in _handle_connection, before _dispatch: no "with" block is open
RecvOf(c) == Io(conns[c].seed, "recv", conns[c].type, {})

\* the replies that this step writes on connection c with conn.sendall
Replies(c) == {conns'[c].out[i].type : i \in (Len(conns[c].out) + 1)..Len(conns'[c].out)}

\* _send_to_seed_with_response of proposer s towards seed t: connect, sendall and,
\* when t answers, the sendall of t's handler and the recv of s; none inside a "with"
Exchange(s, t, request, reply) ==
    {Io(s, "connect", request, {}), Io(s, "sendall", request, {})}
        \cup (IF running[t]
              THEN {Io(t, "recv", request, {}), Io(t, "sendall", reply, {}), Io(s, "recv", reply, {})}
              ELSE {})

\* _on_register_request: the "Already registered" ACK is sent inside
\* "with self.peer_list_lock"; the other branch sends nothing
IoRegisterRequest(c) ==
    /\ OnRegisterRequest(c)
    /\ io_log' = io_log \cup {RecvOf(c)}
                        \cup {Io(conns[c].seed, "sendall", m, {"peer_list_lock"}) : m \in Replies(c)}
    /\ UNCHANGED <<peerVars, reader, threads>>

\* the vote collection loop of _on_register_request
IoCollectRegisterVote(c) ==
    /\ CollectRegisterVote(c)
    /\ io_log' = io_log \cup Exchange(conns[c].seed, OtherSeeds(conns[c].seed)[conns[c].next],
                                      "PROPOSE_REGISTER", "VOTE_REGISTER")
    /\ UNCHANGED <<peerVars, reader, threads>>

\* _decide_registration: ci[0].sendall after proposals_lock, peer_list_lock and
\* pending_lock have been released
IoDecideRegistration(c) ==
    /\ DecideRegistration(c)
    /\ io_log' = io_log \cup {Io(conns[c].seed, "sendall", m, {}) : m \in Replies(c)}
    /\ UNCHANGED <<peerVars, reader, threads>>

\* _on_dead_node_report up to the loop: no socket call but the recv
IoDeadNodeReport(c) ==
    /\ OnDeadNodeReport(c)
    /\ io_log' = io_log \cup {RecvOf(c)}
    /\ UNCHANGED <<peerVars, reader, threads>>

\* the vote collection loop of _on_dead_node_report
IoCollectRemoveVote(c) ==
    /\ CollectRemoveVote(c)
    /\ io_log' = io_log \cup Exchange(conns[c].seed, OtherSeeds(conns[c].seed)[conns[c].next],
                                      "PROPOSE_REMOVE", "VOTE_REMOVE")
    /\ UNCHANGED <<peerVars, reader, threads>>

\* _decide_removal: no socket call
IoDecideRemoval(c) ==
    /\ DecideRemoval(c)
    /\ UNCHANGED <<peerVars, ioVars>>

\* _on_get_peer_list: the snapshot under peer_list_lock, conn.sendall after it
IoGetPeerList(c) ==
    /\ OnGetPeerList(c)
    /\ io_log' = io_log \cup {RecvOf(c)}
                        \cup {Io(conns[c].seed, "sendall", m, {}) : m \in Replies(c)}
    /\ UNCHANGED <<peerVars, reader, threads>>

LockNext ==
    \/ \E s \in SeedIds, p \in PeerIds : ClientRegister(s, p) /\ UNCHANGED gossipVars
    \/ \E s \in SeedIds, p \in PeerIds : ClientReport(s, p) /\ UNCHANGED gossipVars
    \/ \E s \in SeedIds : ClientGetPeerList(s) /\ UNCHANGED gossipVars
    \/ \E c \in 1..Len(conns) : IoRegisterRequest(c)
    \/ \E c \in 1..Len(conns) : IoCollectRegisterVote(c)
    \/ \E c \in 1..Len(conns) : IoDecideRegistration(c)
    \/ \E c \in 1..Len(conns) : IoDeadNodeReport(c)
    \/ \E c \in 1..Len(conns) : IoCollectRemoveVote(c)
    \/ \E c \in 1..Len(conns) : IoDecideRemoval(c)
    \/ \E c \in 1..Len(conns) : IoGetPeerList(c)

LockSpec == SeedSpecInit /\ [][LockNext]_vars

\* C22: no thread of a seed holds one of the node's mutexes while it performs a socket
\* connect, send or receive.
C22_NoLockHeldAcrossIO == \A r \in io_log : r.holding = {}

\* the step of x's round in which the answer of the running peer pid comes back
QueryStep(x, pid) ==
    /\ liveness[x].phase = "rounds" /\ liveness[x].suspect # None
    /\ pid \in liveness[x].others /\ pid \notin liveness'[x].others
    /\ peer_running[pid]

\* C31: a peer that answers SUSPECT_QUERY for a suspect replies confirmed = true if and
\* only if its own miss count for the suspect is non-zero or a PING of the suspect at
\* that moment gets no PONG, whether or not the suspect is one of its neighbors.
C31_ConfirmedIffMissOrProbeFails ==
    [][\A x \in OverlayPeers, pid \in OverlayPeers :
         QueryStep(x, pid) =>
            (pid \in liveness'[x].confirmed
                <=> (MissCount(pid, liveness[x].suspect) >= 1 \/ ~GotPong(liveness[x].suspect)))]_vars

\* the hashes that this step stores at peer x
NewlyStored(x) == (DOMAIN message_list'[x]) \ (DOMAIN message_list[x])

\* the sender that the forward of a newly stored hash leaves out: None for a message
\* that x has originated in this step, the payload's sender for one it has received
LeftOut(x, h) == IF msg_counter'[x] # msg_counter[x] THEN None ELSE message_list'[x][h].from

\* C32: the step in which a peer first stores a msg_hash sends the message to every
\* neighbor it has at that time that accepts the connection, except the one named in the
\* payload's sender field, and to every such neighbor when the peer has originated the
\* message; nothing is sent in a step that stores no hash.
C32_ForwardToAllButSender ==
    [][/\ \A x \in OverlayPeers : \A h \in NewlyStored(x) :
             sends' (-) sends = SetToBag({[from |-> x, msg_hash |-> h, to |-> y] :
                                    y \in {z \in neighbors[x] \ {LeftOut(x, h)} : peer_running[z]}})
       /\ (sends' # sends => \E x \in OverlayPeers : NewlyStored(x) # {})]_vars

\* a peer has received a message from one of its neighbors and has sent it on to
\* another neighbor, and not back
C32_Witness ==
    \E x \in OverlayPeers : \E h \in DOMAIN message_list[x] :
        LET sender == message_list[x][h].from IN
        /\ sender # x /\ sender \in neighbors[x]
        /\ \E f \in BagToSet(sends) : f.from = x /\ f.msg_hash = h /\ f.to # sender
        /\ \A f \in BagToSet(sends) : (f.from = x /\ f.msg_hash = h) => f.to # sender

\* no request is being handled and no further one arrives: every connection of the run
\* has been opened and its handler has ended
NoMoreRequests == Len(conns) = MaxConns /\ \A c \in DOMAIN conns : conns[c].state = "done"

AllReachable == \A s \in ConfigSeeds : running[s]

UnionOfKeys == UNION {DOMAIN peer_list[s] : s \in ConfigSeeds}

DecideRemovalStep(c) ==
    /\ conns[c].type = "DEAD_NODE_REPORT"
    /\ conns[c].state = "collect" /\ conns'[c].state = "done"

\* C34: the decision of a remove proposal with fewer than Q YES votes leaves every
\* membership as it was; an approved one whose subject is absent at that moment ends
\* like any other and changes nothing; an approved one changes no entry but the
\* subject's at the proposer.
C34_RejectedOrAbsentRemovalIsNoOp ==
    [][\A c \in DOMAIN conns :
         DecideRemovalStep(c) =>
            LET s == conns[c].seed
                prop == proposals[s][conns[c].pid]
                yes == Cardinality({v \in DOMAIN prop.votes : prop.votes[v]})
            IN
            /\ yes < (total_seeds \div 2) + 1 => peer_list' = peer_list
            /\ prop.peer_id \notin DOMAIN peer_list[s] => peer_list' = peer_list
            /\ \A t \in SeedIds \ {s} : peer_list'[t] = peer_list[t]
            /\ \A q \in (DOMAIN peer_list[s]) \ {prop.peer_id} :
                  q \in DOMAIN peer_list'[s] /\ peer_list'[s][q] = peer_list[s][q]
            /\ proposals'[s][conns[c].pid].decided]_vars

\* a seed has approved two remove proposals for one peer, the second with the peer
\* already gone, and a seed has rejected a remove proposal and still lists the peer
C34_Witness ==
    /\ \E d \in outcomes, e \in outcomes :
          /\ d.type = "remove" /\ e.type = "remove" /\ d.approved /\ e.approved
          /\ d.seed = e.seed /\ d.peer_id = e.peer_id /\ d.proposal_id # e.proposal_id
    /\ \E d \in outcomes : d.type = "remove" /\ ~d.approved /\ InList(d.seed, d.peer_id)

\* the PROPOSE_* messages that this step sends for proposal pid
NewlyProposed(pid) ==
    {m \in sent' \ sent : m.type \in {"PROPOSE_REGISTER", "PROPOSE_REMOVE"} /\ m.proposal_id = pid}

\* C35: a proposal that a seed has created from a local request is eventually decided
\* as long as the proposer runs, whichever other seeds are stopped or answer too late;
\* the collection loop goes through the other seeds once, in order, each step asking
\* the next seed and no other.
C35_EveryProposalIsDecided ==
    /\ \A c \in 1..MaxConns :
          (c \in DOMAIN conns /\ conns[c].state = "collect") ~>
             (/\ c \in DOMAIN conns
              /\ \/ ~running[conns[c].seed]
                 \/ /\ conns[c].state = "done"
                    /\ conns[c].pid \in DOMAIN proposals[conns[c].seed]
                    /\ proposals[conns[c].seed][conns[c].pid].decided)
    /\ [][\A c \in DOMAIN conns :
            conns[c].state = "collect" =>
               /\ conns'[c].next \in {conns[c].next, conns[c].next + 1}
               /\ conns'[c].next <= Len(OtherSeeds(conns[c].seed)) + 1
               /\ \A m \in NewlyProposed(conns[c].pid) :
                     /\ conns'[c].next = conns[c].next + 1
                     /\ m.to = OtherSeeds(conns[c].seed)[conns[c].next]]_vars

\* a register proposal has been decided at a proposer that got no vote from the two
\* other seeds: one was stopped, the other answered too late
C35_Witness ==
    \E c \in DOMAIN conns :
        LET s == conns[c].seed IN
        /\ conns[c].type = "REGISTER_REQUEST" /\ conns[c].state = "done" /\ conns[c].pid # 0
        /\ total_seeds = 3 /\ running[s]
        /\ proposals[s][conns[c].pid].decided
        /\ DOMAIN proposals[s][conns[c].pid].votes = {s}
        /\ \E t \in ConfigSeeds : ~running[t]
        /\ \E t \in ConfigSeeds \ {s} : running[t] /\ conns[c].pid \in DOMAIN proposals[t]

\* ------------------------------------------------------------------ lock scopes
\* The "with self.<lock>:" blocks that a thread goes through in each function of
\* seed.py, in source order, the functions it calls included (_decide_registration at
\* the end of _on_register_request, _decide_removal at the end of _on_dead_node_report,
\* _merge in _on_seed_sync); the blocks of both branches of an "if" are listed one after
\* the other, a block inside a loop once.
SeedWithBlocks ==
    [_on_register_request |-> <<"peer_list_lock", "proposals_lock", "pending_lock",
                                "proposals_lock",
                                "proposals_lock", "peer_list_lock", "pending_lock", "pending_lock">>,
     _on_propose_register |-> <<"peer_list_lock", "proposals_lock">>,
     _on_vote_register    |-> <<"proposals_lock">>,
     _on_dead_node_report |-> <<"peer_list_lock", "proposals_lock", "proposals_lock",
                                "proposals_lock", "peer_list_lock">>,
     _on_propose_remove   |-> <<"peer_list_lock", "proposals_lock">>,
     _on_vote_remove      |-> <<"proposals_lock">>,
     _on_get_peer_list    |-> <<"peer_list_lock">>,
     _sync_with_seeds     |-> <<"peer_list_lock">>,
     _on_seed_sync        |-> <<"peer_list_lock">>,
     get_status           |-> <<"peer_list_lock">>]

\* the same for peer.py (_forward_gossip at the end of _generate_gossip and _on_gossip)
PeerWithBlocks ==
    [_fetch_peer_lists   |-> <<"known_peers_lock">>,
     _build_overlay      |-> <<"known_peers_lock", "neighbors_lock">>,
     _gossip_loop        |-> <<"msg_counter_lock",
                               "msg_counter_lock", "message_list_lock", "neighbors_lock">>,
     _on_gossip          |-> <<"message_list_lock", "neighbors_lock">>,
     _ping_all_neighbors |-> <<"neighbors_lock", "ping_lock", "suspected_lock", "suspected_lock">>,
     _on_pong            |-> <<"ping_lock">>,
     _check_suspicions   |-> <<"suspected_lock", "suspected_lock", "neighbors_lock",
                               "neighbors_lock", "suspected_lock">>,
     _on_suspect_query   |-> <<"suspected_lock", "neighbors_lock">>,
     get_status          |-> <<"neighbors_lock", "message_list_lock">>]

WithBlocks(node) == IF node = "seed" THEN SeedWithBlocks ELSE PeerWithBlocks

\* "with" blocks written one inside the other: every lock is taken before any is released
RECURSIVE NestedEvents(_)
NestedEvents(blocks) ==
    IF blocks = <<>> THEN <<>>
    ELSE <<[op |-> "acquire", lock |-> Head(blocks)]>>
            \o NestedEvents(Tail(blocks))
            \o <<[op |-> "release", lock |-> Head(blocks)]>>

\* what a thread does with the locks of a function: every "with" block of seed.py and
\* peer.py ends before the next one begins, so each lock is released before the next
\* is taken
RECURSIVE LockEvents(_)
LockEvents(blocks) ==
    IF blocks = <<>> THEN <<>>
    ELSE <<[op |-> "acquire", lock |-> Head(blocks)], [op |-> "release", lock |-> Head(blocks)]>>
            \o LockEvents(Tail(blocks))

\* a thread whose "with" blocks are nested
ProgramNested(th) == NestedEvents(WithBlocks(threads.node)[threads.of[th].fn])

\* the lock operations of the function that thread th is in
Program(th) == LockEvents(WithBlocks(threads.node)[threads.of[th].fn])

Running(th) == threads.of[th].fn # "idle"

AtEvent(th, op) ==
    /\ Running(th) /\ threads.of[th].pc <= Len(Program(th))
    /\ Program(th)[threads.of[th].pc].op = op

Wanted(th) == Program(th)[threads.of[th].pc].lock

Holders(lock) == {th \in ThreadIds : lock \in threads.of[th].held}

\* the node whose threads are followed is a seed or a peer
NodeBoot(node) ==
    /\ threads.node = "none"
    /\ threads' = [threads EXCEPT !.node = node]
    /\ UNCHANGED <<total_seeds, running, peer_list, proposals, pending_responses,
                   conns, sync, sent, outcomes, last_approved, peerVars, reader, io_log>>

\* a handler or background thread of the node enters function fn
ThreadCall(th, fn) ==
    /\ threads.node # "none" /\ ~Running(th)
    /\ fn \in DOMAIN WithBlocks(threads.node)
    /\ threads' = [threads EXCEPT !.of[th] = [fn |-> fn, pc |-> 1, held |-> {}]]
    /\ UNCHANGED <<total_seeds, running, peer_list, proposals, pending_responses,
                   conns, sync, sent, outcomes, last_approved, peerVars, reader, io_log>>

\* threading.Lock.acquire at the head of a "with" block: the lock is free (the lock is
\* not reentrant)
ThreadAcquire(th) ==
    /\ AtEvent(th, "acquire")
    /\ Holders(Wanted(th)) = {}
    /\ threads' = [threads EXCEPT !.of[th].held = @ \cup {Wanted(th)}, !.of[th].pc = @ + 1]
    /\ UNCHANGED <<total_seeds, running, peer_list, proposals, pending_responses,
                   conns, sync, sent, outcomes, last_approved, peerVars, reader, io_log>>

\* the end of a "with" block
ThreadRelease(th) ==
    /\ AtEvent(th, "release")
    /\ threads' = [threads EXCEPT !.of[th].held = @ \ {Wanted(th)}, !.of[th].pc = @ + 1]
    /\ UNCHANGED <<total_seeds, running, peer_list, proposals, pending_responses,
                   conns, sync, sent, outcomes, last_approved, peerVars, reader, io_log>>

\* the function returns
ThreadReturn(th) ==
    /\ Running(th) /\ threads.of[th].pc > Len(Program(th))
    /\ threads' = [threads EXCEPT !.of[th] = IdleThread]
    /\ UNCHANGED <<total_seeds, running, peer_list, proposals, pending_responses,
                   conns, sync, sent, outcomes, last_approved, peerVars, reader, io_log>>

LockOrderNext ==
    \/ \E node \in {"seed", "peer"} : NodeBoot(node)
    \/ \E th \in ThreadIds, fn \in (DOMAIN SeedWithBlocks) \cup (DOMAIN PeerWithBlocks) :
          ThreadCall(th, fn)
    \/ \E th \in ThreadIds : ThreadAcquire(th)
    \/ \E th \in ThreadIds : ThreadRelease(th)
    \/ \E th \in ThreadIds : ThreadReturn(th)

LockOrderSpec == SeedSpecInit /\ [][LockOrderNext]_vars

\* th waits at the head of a "with" block for a lock that is held
Blocked(th) == AtEvent(th, "acquire") /\ Holders(Wanted(th)) # {}

\* some threads wait for locks that threads among them hold
LockDeadlock ==
    \E S \in (SUBSET ThreadIds) \ {{}} :
        \A th \in S : Blocked(th) /\ Holders(Wanted(th)) \subseteq S

\* C36: no thread of a seed or of a peer holds two of the node's mutexes at the same
\* time, and no reachable state is a deadlock among threads waiting for each other's
\* locks.
C36_AtMostOneLockHeld ==
    /\ \A th \in ThreadIds : Cardinality(threads.of[th].held) <= 1
    /\ ~LockDeadlock

\* every other thread waits for the lock that a thread holds inside _decide_registration
C36_Witness ==
    \E th \in ThreadIds :
        /\ threads.node = "seed"
        /\ threads.of[th].fn = "_on_register_request" /\ threads.of[th].pc > 8
        /\ threads.of[th].held # {}
        /\ \A o \in ThreadIds \ {th} : Blocked(o) /\ Wanted(o) \in threads.of[th].held

OverlayIsBuilt(x) == start[x].phase \in {"threads", "active"}

\* C38: the neighbors of a peer are always among its known peers and never include the
\* peer itself; once its overlay build is over the build is not run again and the
\* neighbors only shrink.
C38_NeighborsWithinKnownAndShrinking ==
    /\ [](\A x \in OverlayPeers : neighbors[x] \subseteq start[x].known_peers /\ x \notin neighbors[x])
    /\ [][\A x \in OverlayPeers :
            OverlayIsBuilt(x) => (OverlayIsBuilt(x)' /\ neighbors'[x] \subseteq neighbors[x])]_vars

\* a peer has evicted the neighbor that its overlay build had selected among the peers
\* it knows
C38_Witness ==
    \E x \in OverlayPeers : \E r \in reports :
        /\ r.reporter_id = x /\ start[x].phase = "active"
        /\ r.dead_peer_id \in start[x].known_peers /\ r.dead_peer_id \notin neighbors[x]

\* x has declared q dead: _report_dead_node has built its report
Declared(x, q) == \E r \in reports : r.reporter_id = x /\ r.dead_peer_id = q

\* C39: once a peer has declared a suspect dead, the suspect stays in its
\* suspected_nodes with a non-zero miss count and out of its neighbors; the peer starts
\* no further round and declares nothing further for it, and its answer to a later
\* SUSPECT_QUERY about it is counted as confirmed.
C39_DeclaredAtMostOnce ==
    /\ [](\A x \in OverlayPeers, q \in OverlayPeers :
            Declared(x, q) =>
               /\ q \in suspected_nodes[x] /\ MissCount(x, q) >= 1 /\ q \notin neighbors[x]
               /\ liveness[x].suspect # q /\ q \notin liveness[x].suspects
               /\ SuspectConfirmed(x, q))
    /\ [][\A x \in OverlayPeers, q \in OverlayPeers :
            Declared(x, q) =>
               /\ ~DeclareStep(x, q)
               /\ reports' = reports \/ \E r \in reports' \ reports : r.dead_peer_id # q \/ r.reporter_id # x
               /\ \A y \in OverlayPeers :
                     (QueryStep(y, x) /\ liveness[y].suspect = q) => x \in liveness'[y].confirmed]_vars

\* a peer has declared a suspect dead and has gone through a further round of pings
\* since, and another peer holds its answer about that suspect as confirmed
C39_Witness ==
    \E x \in OverlayPeers, q \in OverlayPeers, y \in OverlayPeers :
        /\ Declared(x, q) /\ liveness[x].phase = "check"
        /\ q \in suspected_nodes[x] /\ q \notin neighbors[x]
        /\ y # x /\ liveness[y].suspect = q /\ x \in liveness[y].confirmed

\* peers that register while other seeds may be stopped or answer too late
StartSilentNext ==
    \/ \E x \in StartingPeers : \E chosen \in Samples(NumChosen) :
          Starting < MaxStarting /\ PeerStart(x, chosen)
    \/ \E x \in StartingPeers : RegisterSend(x)
    \/ \E x \in StartingPeers : RegisterReply(x)
    \/ \E x \in StartingPeers : RegisterNoReply(x)
    \/ \E x \in StartingPeers : RegisterTimeout(x)
    \/ \E x \in StartingPeers : RegisterDone(x)
    \/ \E c \in DOMAIN conns : OnRegisterRequest(c) /\ UNCHANGED gossipVars
    \/ \E c \in DOMAIN conns : CollectRegisterVote(c) /\ UNCHANGED gossipVars
    \/ \E c \in DOMAIN conns : CollectRegisterVoteLate(c) /\ UNCHANGED gossipVars
    \/ \E c \in DOMAIN conns : DecideRegistration(c) /\ UNCHANGED gossipVars
    \/ \E s \in SeedIds : Stopped < MaxStops /\ SeedStop(s) /\ UNCHANGED gossipVars

StartSilentSpec == StartSpecInit /\ [][StartSilentNext]_vars

\* C40: when a peer's registration has ended with zero REGISTER_ACKs and the peer has
\* shut down, no seed has the peer in its membership.
C40_FailedRegistrationLeavesNoEntry ==
    \A x \in OverlayPeers :
        start[x].phase = "failed" => \A s \in ConfigSeeds : x \notin DOMAIN peer_list[s]

====
